---- MODULE Spec2Model ----
(***************************************************************************)
(* A model of the magazine x photography olog system: the profile          *)
(* extractors and the compatibility scorer of ologs.py, and the            *)
(* oscillation engine of magazine_photography_mcp.py.                      *)
(*                                                                         *)
(* Texts are TLA+ strings; the substring test of Python's `in` is done     *)
(* character by character (Contains), and str.lower() maps every           *)
(* character (Lower).  A Python dict is a function whose domain is the set *)
(* of keys that are present; dict.get(k, default) is Get.                  *)
(***************************************************************************)
EXTENDS Integers, Sequences, FiniteSets, TLC

VARIABLES
    magazine,        \* the magazine record handed to the olog layer
    photography,     \* the photography-style record handed to the olog layer
    mag_profile,     \* VisualTreatmentProfile returned by the extractor, or None
    photo_profile,   \* PhotographyTechnicalProfile returned by the extractor, or None
    scores,          \* CompatibilityScore returned by compatibility_mapping, or None
    pre,             \* compatibility_mapping's locals as they stand before the clamps
    pc,              \* which olog entry point has run
    num_steps,       \* _generate_oscillation's argument
    num_cycles,      \* _generate_oscillation's argument, the rational cn/cd
    pattern,         \* _generate_oscillation's argument
    osc,             \* what _generate_oscillation gave: a list or a raised error
                     \* (kind "none" before the call)
    tool,            \* the morphospace function that was called ("none" before)
    args,            \* its arguments
    result,          \* the dict it returned, or the exception it raised
    locals,          \* its local variables as they stand when it returns
    store            \* the objects that outlive a call: the three catalogs of the
                     \* module, and the caller's two records as the call left them

vars == <<magazine, photography, mag_profile, photo_profile, scores, pre, pc,
          num_steps, num_cycles, pattern, osc, tool, args, result, locals, store>>

ologVars == <<magazine, photography, mag_profile, photo_profile, scores, pre, pc>>
oscVars == <<num_steps, num_cycles, pattern, osc>>
morphVars == <<tool, args, result, locals>>

None == "None"

(***************************************************************************)
(* Bounds of the model.                                                    *)
(***************************************************************************)
\* the longest free text is MaxWords vocabulary words joined by spaces
MaxWords == 2
\* the largest num_steps handed to the oscillator
MaxSteps == 6
\* num_cycles ranges over cn/cd with cn in 1..MaxCycleNum, cd in 1..MaxCycleDen
MaxCycleNum == 3
MaxCycleDen == 2
\* _interpolate_states is called with alpha = k / AlphaSteps, k in 0..AlphaSteps
AlphaSteps == 4
\* the largest num_steps override handed to generate_rhythmic_sequence
MaxOverrideSteps == 8
\* keyframe_count ranges over -1..MaxFewKeyframes, 7 and 61 (which divide no
\* trajectory length), and MaxKeyframes, which is above every trajectory length
MaxFewKeyframes == 4
MaxKeyframes == 73

(***************************************************************************)
(* Python primitives.                                                      *)
(***************************************************************************)
EmptyDict == [k \in {} |-> None]

\* dict.get(k, default)
Get(d, k, default) == IF k \in DOMAIN d THEN d[k] ELSE default

UpperToLower ==
    ("A" :> "a") @@ ("B" :> "b") @@ ("C" :> "c") @@ ("D" :> "d") @@ ("E" :> "e") @@
    ("F" :> "f") @@ ("G" :> "g") @@ ("H" :> "h") @@ ("I" :> "i") @@ ("J" :> "j") @@
    ("K" :> "k") @@ ("L" :> "l") @@ ("M" :> "m") @@ ("N" :> "n") @@ ("O" :> "o") @@
    ("P" :> "p") @@ ("Q" :> "q") @@ ("R" :> "r") @@ ("S" :> "s") @@ ("T" :> "t") @@
    ("U" :> "u") @@ ("V" :> "v") @@ ("W" :> "w") @@ ("X" :> "x") @@ ("Y" :> "y") @@
    ("Z" :> "z")

UpperChars == DOMAIN UpperToLower

LowerChar(c) == IF c \in UpperChars THEN UpperToLower[c] ELSE c

RECURSIVE LowerFrom(_, _)
LowerFrom(s, i) ==
    IF i > Len(s) THEN "" ELSE LowerChar(SubSeq(s, i, i)) \o LowerFrom(s, i + 1)

\* str.lower()
Lower(s) == LowerFrom(s, 1)

\* kw in text
Contains(text, kw) ==
    \E i \in 1..(Len(text) - Len(kw) + 1) : SubSeq(text, i, i + Len(kw) - 1) = kw

RECURSIVE JoinFrom(_, _)
JoinFrom(words, i) ==
    IF i > Len(words) THEN ""
    ELSE IF i = Len(words) THEN words[i]
    ELSE words[i] \o " " \o JoinFrom(words, i + 1)

\* " ".join(words)
Join(words) == JoinFrom(words, 1)

Max(a, b) == IF a >= b THEN a ELSE b
Min(a, b) == IF a <= b THEN a ELSE b

(***************************************************************************)
(* Layer 1: the categorical taxonomy (the enums' values).                  *)
(***************************************************************************)
TemporalAlignment == {"era_matched", "creative_anachronism", "temporal_clash"}
ColorPaletteCategory == {"vibrant", "muted", "monochromatic", "cool", "warm", "mixed"}
LightingApproach ==
    {"hard_directional", "soft_diffused", "natural_ambient", "clinical", "dramatic"}
ContrastProfile == {"high", "medium", "low", "extreme"}
TextureEmphasis == {"sharp", "smooth", "organic", "synthetic", "ethereal"}
CompositionStrategy ==
    {"geometric", "asymmetrical", "tight_crop", "environmental", "minimalist"}
FocalLengthCategory == {"ultra_wide", "wide", "standard", "medium_telephoto", "telephoto"}
SubjectContext == {"people", "objects", "places", "moments", "abstract"}
DepthOfField == {"shallow", "moderate", "deep"}

(***************************************************************************)
(* Layer 4: magazine_to_visual_treatment.  Each classifier is the if/elif  *)
(* chain of the source over the lower-cased text.                          *)
(***************************************************************************)
color_category_swapped(color_text) ==
    IF Contains(color_text, "vibrant") \/ Contains(color_text, "saturated")
           \/ Contains(color_text, "vivid")
    THEN "vibrant"
    ELSE IF Contains(color_text, "muted") \/ Contains(color_text, "desaturated")
           \/ Contains(color_text, "pastel")
    THEN "muted"
    ELSE IF Contains(color_text, "cool") \/ Contains(color_text, "blue")
           \/ Contains(color_text, "cyan")
    THEN "cool"
    ELSE IF Contains(color_text, "warm") \/ Contains(color_text, "orange")
           \/ Contains(color_text, "yellow")
    THEN "warm"
    ELSE IF Contains(color_text, "black and white") \/ Contains(color_text, "b&w")
           \/ Contains(color_text, "monochrome")
    THEN "monochromatic"
    ELSE "mixed"

color_category(color_text) ==
    IF Contains(color_text, "muted") \/ Contains(color_text, "desaturated")
           \/ Contains(color_text, "pastel")
    THEN "muted"
    ELSE IF Contains(color_text, "vibrant") \/ Contains(color_text, "saturated")
           \/ Contains(color_text, "vivid")
    THEN "vibrant"
    ELSE IF Contains(color_text, "cool") \/ Contains(color_text, "blue")
           \/ Contains(color_text, "cyan")
    THEN "cool"
    ELSE IF Contains(color_text, "warm") \/ Contains(color_text, "orange")
           \/ Contains(color_text, "yellow")
    THEN "warm"
    ELSE IF Contains(color_text, "black and white") \/ Contains(color_text, "b&w")
           \/ Contains(color_text, "monochrome")
    THEN "monochromatic"
    ELSE "mixed"

lighting_approach(lighting_text) ==
    IF Contains(lighting_text, "soft") \/ Contains(lighting_text, "diffused")
    THEN "soft_diffused"
    ELSE IF Contains(lighting_text, "hard") \/ Contains(lighting_text, "dramatic")
           \/ Contains(lighting_text, "sharp")
    THEN "hard_directional"
    ELSE IF Contains(lighting_text, "natural") \/ Contains(lighting_text, "golden hour")
           \/ Contains(lighting_text, "window")
    THEN "natural_ambient"
    ELSE IF Contains(lighting_text, "clinical") \/ Contains(lighting_text, "neutral")
           \/ Contains(lighting_text, "even")
    THEN "clinical"
    ELSE "dramatic"

contrast_profile_low_fallback(contrast_text) ==
    IF Contains(contrast_text, "extreme") \/ Contains(contrast_text, "crushed")
           \/ Contains(contrast_text, "blown")
    THEN "extreme"
    ELSE IF Contains(contrast_text, "high")
    THEN "high"
    ELSE "low"

contrast_profile(contrast_text) ==
    IF Contains(contrast_text, "extreme") \/ Contains(contrast_text, "crushed")
           \/ Contains(contrast_text, "blown")
    THEN "extreme"
    ELSE IF Contains(contrast_text, "high")
    THEN "high"
    ELSE IF Contains(contrast_text, "low") \/ Contains(contrast_text, "lifted")
           \/ Contains(contrast_text, "compressed")
    THEN "low"
    ELSE "medium"

texture_emphasis(texture_text) ==
    IF Contains(texture_text, "sharp") \/ Contains(texture_text, "crisp")
           \/ Contains(texture_text, "clinical")
    THEN "sharp"
    ELSE IF Contains(texture_text, "soft") \/ Contains(texture_text, "dreamy")
           \/ Contains(texture_text, "ethereal")
    THEN "ethereal"
    ELSE IF Contains(texture_text, "smooth") \/ Contains(texture_text, "glossy")
           \/ Contains(texture_text, "polished")
    THEN "smooth"
    ELSE IF Contains(texture_text, "synthetic") \/ Contains(texture_text, "materials")
           \/ Contains(texture_text, "manufactured")
    THEN "synthetic"
    ELSE "organic"

magazine_to_visual_treatment(mag) ==
    LET visual == Get(mag, "visual_treatment", EmptyDict)
    IN  [ color_palette     |-> Get(visual, "color_palette", ""),
          color_category    |-> color_category(Lower(Get(visual, "color_palette", ""))),
          lighting          |-> Get(visual, "lighting", ""),
          lighting_approach |-> lighting_approach(Lower(Get(visual, "lighting", ""))),
          contrast          |-> Get(visual, "contrast", ""),
          contrast_profile  |-> contrast_profile(Lower(Get(visual, "contrast", ""))),
          texture           |-> Get(visual, "texture", ""),
          texture_emphasis  |-> texture_emphasis(Lower(Get(visual, "texture", ""))) ]

(***************************************************************************)
(* Layer 4: photography_to_technical_profile.                              *)
(***************************************************************************)
composition_strategy(composition_text) ==
    IF Contains(composition_text, "grid") \/ Contains(composition_text, "geometric")
           \/ Contains(composition_text, "symmetric")
    THEN "geometric"
    ELSE IF Contains(composition_text, "asymmetric") \/ Contains(composition_text, "balanced")
    THEN "asymmetrical"
    ELSE IF Contains(composition_text, "crop") \/ Contains(composition_text, "tight")
           \/ Contains(composition_text, "close")
    THEN "tight_crop"
    ELSE IF Contains(composition_text, "environment") \/ Contains(composition_text, "context")
    THEN "environmental"
    ELSE IF Contains(composition_text, "minimal") \/ Contains(composition_text, "sparse")
           \/ Contains(composition_text, "negative space")
    THEN "minimalist"
    ELSE "asymmetrical"

focal_length_category(focal_text) ==
    IF Contains(focal_text, "ultra") \/ Contains(focal_text, "14")
           \/ Contains(focal_text, "16")
    THEN "ultra_wide"
    ELSE IF Contains(focal_text, "wide") \/ Contains(focal_text, "24")
           \/ Contains(focal_text, "35")
    THEN "wide"
    ELSE IF Contains(focal_text, "50") \/ Contains(focal_text, "35-50")
           \/ Contains(focal_text, "standard")
    THEN "standard"
    ELSE IF Contains(focal_text, "85") \/ Contains(focal_text, "70")
           \/ Contains(focal_text, "50-85") \/ Contains(focal_text, "medium telephoto")
    THEN "medium_telephoto"
    ELSE IF Contains(focal_text, "telephoto") \/ Contains(focal_text, "100")
           \/ Contains(focal_text, "200")
    THEN "telephoto"
    ELSE "standard"

subject_context(typical_uses) ==
    IF Contains(typical_uses, "portrait") \/ Contains(typical_uses, "people")
           \/ Contains(typical_uses, "fashion")
    THEN "people"
    ELSE IF Contains(typical_uses, "product") \/ Contains(typical_uses, "still life")
    THEN "objects"
    ELSE IF Contains(typical_uses, "architecture") \/ Contains(typical_uses, "landscape")
           \/ Contains(typical_uses, "place")
    THEN "places"
    ELSE IF Contains(typical_uses, "candid") \/ Contains(typical_uses, "moment")
           \/ Contains(typical_uses, "event")
    THEN "moments"
    ELSE "abstract"

depth_of_field_medium(aperture_text) ==
    IF Contains(aperture_text, "f/1") \/ Contains(aperture_text, "shallow")
    THEN "shallow"
    ELSE IF Contains(aperture_text, "f/5.6") \/ Contains(aperture_text, "f/8")
           \/ Contains(aperture_text, "deep")
    THEN "deep"
    ELSE "medium"

depth_of_field(aperture_text) ==
    IF Contains(aperture_text, "f/1") \/ Contains(aperture_text, "shallow")
    THEN "shallow"
    ELSE IF Contains(aperture_text, "f/5.6") \/ Contains(aperture_text, "f/8")
           \/ Contains(aperture_text, "deep")
    THEN "deep"
    ELSE "moderate"

photography_to_technical_profile(photo) ==
    LET technical == Get(photo, "technical", EmptyDict)
        aesthetic == Get(photo, "aesthetic", EmptyDict)
        context   == Get(photo, "context", EmptyDict)
    IN  [ composition_strategy   |->
              composition_strategy(Lower(Get(aesthetic, "composition", ""))),
          focal_length_category  |->
              focal_length_category(Lower(Get(technical, "focal_length", ""))),
          subject_context        |->
              subject_context(Lower(Join(Get(context, "typical_uses", <<>>)))),
          framing_description    |-> Get(aesthetic, "composition", ""),
          depth_of_field         |->
              depth_of_field(Lower(Get(technical, "typical_aperture_range", ""))),
          typical_aperture_range |->
              Get(technical, "typical_aperture_range", "f/2.8-f/5.6") ]

(***************************************************************************)
(* Layer 4: compatibility_mapping.  The *_score, temporal_align, tension   *)
(* and harmony operators are the function's locals as they stand at line   *)
(* 396, before the four clamps.                                            *)
(***************************************************************************)
technical_score_any_focal(pp) ==
    5 + (IF pp.focal_length_category = "medium_telephoto" THEN 1 ELSE 0)
      + (IF pp.composition_strategy = "tight_crop" THEN 1 ELSE 0)
      + (IF pp.composition_strategy = "environmental" THEN 1 ELSE 0)

technical_score_for_people(pp) ==
    5 + (IF pp.focal_length_category = "medium_telephoto" /\ pp.subject_context = "people"
         THEN 1 ELSE 0)
      + (IF pp.composition_strategy = "tight_crop" THEN 1 ELSE 0)
      + (IF pp.focal_length_category = "wide" /\ pp.composition_strategy = "environmental"
         THEN 1 ELSE 0)

technical_score(pp) ==
    5 + (IF pp.focal_length_category = "medium_telephoto" THEN 1 ELSE 0)
      + (IF pp.composition_strategy = "tight_crop" THEN 1 ELSE 0)
      + (IF pp.focal_length_category = "wide" /\ pp.composition_strategy = "environmental"
         THEN 1 ELSE 0)

aesthetic_score_any_contrast(mp, pp) ==
    5 + (IF mp.color_category = "muted" /\ mp.lighting_approach = "soft_diffused"
         THEN 1 ELSE 0)
      + (IF mp.color_category = "vibrant" THEN 1 ELSE 0)
      + (IF mp.lighting_approach = "hard_directional"
            /\ mp.contrast_profile \in {"high", "extreme"}
         THEN 1 ELSE 0)
      + (IF mp.texture_emphasis = "sharp" /\ pp.composition_strategy = "geometric"
         THEN 1 ELSE 0)

aesthetic_score(mp, pp) ==
    5 + (IF mp.color_category = "muted" /\ mp.lighting_approach = "soft_diffused"
         THEN 1 ELSE 0)
      + (IF mp.color_category = "vibrant" /\ mp.contrast_profile \in {"high", "extreme"}
         THEN 1 ELSE 0)
      + (IF mp.lighting_approach = "hard_directional"
            /\ mp.contrast_profile \in {"high", "extreme"}
         THEN 1 ELSE 0)
      + (IF mp.texture_emphasis = "sharp" /\ pp.composition_strategy = "geometric"
         THEN 1 ELSE 0)

temporal_align_no_fallback(magazine_era, photography_name) ==
    IF Contains(magazine_era, "1960") \/ Contains(magazine_era, "1970")
    THEN IF Contains(Lower(photography_name), "documentary")
            \/ Contains(Lower(photography_name), "street")
         THEN "era_matched"
         ELSE IF Contains(Lower(photography_name), "studio")
                 \/ Contains(Lower(photography_name), "fashion")
         THEN "era_matched"
         ELSE "creative_anachronism"
    ELSE IF Contains(magazine_era, "contemporary") \/ Contains(magazine_era, "2000")
            \/ Contains(magazine_era, "2010")
    THEN IF Contains(Lower(photography_name), "cinematic")
            \/ Contains(Lower(photography_name), "drone")
         THEN "era_matched"
         ELSE "creative_anachronism"
    ELSE None

temporal_align_clash(magazine_era, photography_name) ==
    IF Contains(magazine_era, "1960") \/ Contains(magazine_era, "1970")
    THEN IF Contains(Lower(photography_name), "documentary")
            \/ Contains(Lower(photography_name), "street")
         THEN "era_matched"
         ELSE IF Contains(Lower(photography_name), "studio")
                 \/ Contains(Lower(photography_name), "fashion")
         THEN "era_matched"
         ELSE "temporal_clash"
    ELSE IF Contains(magazine_era, "contemporary") \/ Contains(magazine_era, "2000")
            \/ Contains(magazine_era, "2010")
    THEN IF Contains(Lower(photography_name), "cinematic")
            \/ Contains(Lower(photography_name), "drone")
         THEN "era_matched"
         ELSE "creative_anachronism"
    ELSE "creative_anachronism"

temporal_align(magazine_era, photography_name) ==
    IF Contains(magazine_era, "1960") \/ Contains(magazine_era, "1970")
    THEN IF Contains(Lower(photography_name), "documentary")
            \/ Contains(Lower(photography_name), "street")
         THEN "era_matched"
         ELSE IF Contains(Lower(photography_name), "studio")
                 \/ Contains(Lower(photography_name), "fashion")
         THEN "era_matched"
         ELSE "creative_anachronism"
    ELSE IF Contains(magazine_era, "contemporary") \/ Contains(magazine_era, "2000")
            \/ Contains(magazine_era, "2010")
    THEN IF Contains(Lower(photography_name), "cinematic")
            \/ Contains(Lower(photography_name), "drone")
         THEN "era_matched"
         ELSE "creative_anachronism"
    ELSE "creative_anachronism"

tension_plus_three(mp, pp, align) ==
    5 + (IF align = "creative_anachronism" THEN 3 ELSE 0)
      + (IF mp.contrast_profile = "extreme" /\ pp.composition_strategy = "minimalist"
         THEN 1 ELSE 0)

tension(mp, pp, align) ==
    5 + (IF align = "creative_anachronism" THEN 2 ELSE 0)
      + (IF mp.contrast_profile = "extreme" /\ pp.composition_strategy = "minimalist"
         THEN 1 ELSE 0)

harmony_no_penalty(technical, aesthetic, tens) ==
    (technical + aesthetic) \div 2

harmony(technical, aesthetic, tens) ==
    ((technical + aesthetic) \div 2) - (IF tens > 7 THEN 1 ELSE 0)

clamp_to_seven(v) == Max(1, Min(7, v))

\* max(1, min(10, v))
clamp(v) == Max(1, Min(10, v))

compatibility_locals(mp, pp, magazine_era, photography_name) ==
    LET technical == technical_score(pp)
        aesthetic == aesthetic_score(mp, pp)
        align     == temporal_align(magazine_era, photography_name)
        tens      == tension(mp, pp, align)
    IN  [ technical_score |-> technical,
          aesthetic_score |-> aesthetic,
          temporal_align  |-> align,
          tension         |-> tens,
          harmony         |-> harmony(technical, aesthetic, tens) ]

compatibility_mapping(mp, pp, magazine_era, photography_name) ==
    LET l == compatibility_locals(mp, pp, magazine_era, photography_name)
    IN  [ overall_harmony    |-> clamp(l.harmony),
          technical_score    |-> clamp(l.technical_score),
          aesthetic_score    |-> clamp(l.aesthetic_score),
          creative_tension   |-> clamp(l.tension),
          temporal_alignment |-> l.temporal_align,
          rationale          |->
              "Magazine: " \o mp.color_category \o " colors, "
                 \o mp.lighting_approach \o " lighting. "
                 \o "Photography: " \o pp.composition_strategy \o " composition, "
                 \o pp.focal_length_category \o " focal length. "
                 \o "Temporal: " \o l.temporal_align \o "." ]

(***************************************************************************)
(* The records handed to the olog layer.  A free text is up to MaxWords    *)
(* words of its dimension's vocabulary: every keyword of the classifier,   *)
(* and words in capitals, near misses and words that are no keyword.       *)
(***************************************************************************)
RECURSIVE TextsUpTo(_, _)
TextsUpTo(words, k) ==
    IF k = 0 THEN {""}
    ELSE LET shorter == TextsUpTo(words, k - 1)
         IN  {t \o " " \o w : t \in shorter \ {""}, w \in words} \cup (words \cup shorter)

RECURSIVE ListsUpTo(_, _)
ListsUpTo(words, k) ==
    IF k = 0 THEN {<<>>}
    ELSE LET shorter == ListsUpTo(words, k - 1)
         IN  {Append(l, w) : l \in shorter, w \in words} \cup shorter

ColorWords ==
    {"muted", "desaturated", "pastel", "vibrant", "saturated", "vivid", "cool", "blue",
     "cyan", "warm", "orange", "yellow", "black and white", "b&w", "monochrome",
     "Muted", "VIVID", "earthy", "monochromatic"}
LightingWords ==
    {"soft", "diffused", "hard", "dramatic", "sharp", "natural", "golden hour", "window",
     "clinical", "neutral", "even", "Soft", "ambient", "light"}
ContrastWords ==
    {"extreme", "crushed", "blown", "high", "low", "lifted", "compressed",
     "High", "medium", "balanced"}
TextureWords ==
    {"sharp", "crisp", "clinical", "soft", "dreamy", "ethereal", "smooth", "glossy",
     "polished", "synthetic", "materials", "manufactured", "Crisp", "organic", "grain"}
CompositionWords ==
    {"grid", "geometric", "symmetric", "asymmetric", "balanced", "crop", "tight", "close",
     "environment", "context", "minimal", "sparse", "negative space",
     "Grid", "rule of thirds", "environmental context"}
FocalWords ==
    {"ultra", "14", "16", "wide", "24", "35", "50", "35-50", "standard", "85", "70",
     "50-85", "medium telephoto", "telephoto", "100", "200", "Wide", "mm", "135"}
UseWords ==
    {"portrait", "people", "fashion", "product", "still life", "architecture",
     "landscape", "place", "candid", "moment", "event", "Portrait", "still", "life",
     "texture"}
ApertureWords ==
    {"f/1", "shallow", "f/5.6", "f/8", "deep", "f/1.4", "f/2.8", "f/11", "Deep",
     "f/2.8-f/5.6"}
EraLabels ==
    {"", "1960s", "1970s", "contemporary", "Contemporary", "2000s", "2010s", "1980s",
     "1960s-2010s", "contemporary 1970s revival"}
StyleNames ==
    {"", "Documentary", "Street Photography", "Studio", "Fashion", "Cinematic", "Drone",
     "Portrait", "DOCUMENTARY", "Cinematic Street", "Studio Drone"}

\* one short text for every category of a dimension
ColorTexts == {"muted", "vivid", "b&w", "cool", "warm", ""}
LightingTexts == {"soft", "hard", "natural", "even", ""}
ContrastTexts == {"high", "", "low", "blown"}
TextureTexts == {"crisp", "glossy", "", "materials", "dreamy"}
CompositionTexts == {"grid", "", "crop", "context", "sparse"}
FocalTexts == {"14", "24", "", "85", "200"}

Mag(color, lighting, contrast, texture, label) ==
    [ visual_treatment |-> [ color_palette |-> color, lighting |-> lighting,
                             contrast |-> contrast, texture |-> texture ],
      era |-> [ label |-> label ] ]

Photo(composition, focal, uses, aperture, name) ==
    [ name      |-> name,
      technical |-> [ focal_length |-> focal, typical_aperture_range |-> aperture ],
      aesthetic |-> [ composition |-> composition ],
      context   |-> [ typical_uses |-> uses ] ]

\* the dict d without key k, and d with key k missing from its group g
Without(d, k) == [x \in DOMAIN d \ {k} |-> d[x]]
WithoutIn(d, g, k) == [x \in DOMAIN d |-> IF x = g THEN Without(d[g], k) ELSE d[x]]

BaseMagazine ==
    Mag("muted pastel tones", "soft diffused window light", "high", "crisp", "1960s")
BasePhotography ==
    Photo("environmental context", "85", <<"portrait">>, "f/1.4", "Documentary")

\* every combination of categories, era-matched and not
MagazineGrid ==
    {Mag(c, l, k, t, e) : c \in ColorTexts, l \in LightingTexts, k \in ContrastTexts,
                          t \in TextureTexts, e \in {"1960s"}}
PhotographyGrid ==
    {Photo(c, f, <<>>, "", n) :
        c \in CompositionTexts, f \in FocalTexts, n \in {"Street", "Drone"}}

\* one field ranging over all its texts
MagazineColorTexts ==
    {Mag(c, "", "", "", "") : c \in TextsUpTo(ColorWords, MaxWords)}
MagazineLightingTexts ==
    {Mag("", l, "", "", "") : l \in TextsUpTo(LightingWords, MaxWords)}
MagazineContrastTexts ==
    {Mag("", "", k, "", "") : k \in TextsUpTo(ContrastWords, MaxWords)}
MagazineTexts ==
    MagazineColorTexts
    \cup (MagazineLightingTexts
          \cup (MagazineContrastTexts
                \cup {Mag("", "", "", t, "") : t \in TextsUpTo(TextureWords, MaxWords)}))
PhotographyCompositionTexts ==
    {Photo(c, "", <<>>, "", "") : c \in TextsUpTo(CompositionWords, MaxWords)}
PhotographyFocalTexts ==
    {Photo("", f, <<>>, "", "") : f \in TextsUpTo(FocalWords, MaxWords)}
PhotographyUses ==
    {Photo("", "", u, "", "") : u \in ListsUpTo(UseWords, MaxWords)}
PhotographyTexts ==
    PhotographyCompositionTexts
    \cup (PhotographyFocalTexts
          \cup (PhotographyUses
                \cup {Photo("", "", <<>>, a, "") : a \in TextsUpTo(ApertureWords, MaxWords)}))

\* every era label against every style name, where the tension bonus can and cannot apply
MagazineEras ==
    {Mag("", "", k, "", e) : k \in {"extreme", "high"}, e \in EraLabels}
PhotographyNames ==
    {Photo(c, "", <<>>, "", n) : c \in {"sparse", "grid"}, n \in StyleNames}

\* records with a group or a field missing
MagazineMissing ==
    {EmptyDict, Without(BaseMagazine, "visual_treatment"), Without(BaseMagazine, "era"),
     WithoutIn(BaseMagazine, "era", "label")}
    \cup {WithoutIn(BaseMagazine, "visual_treatment", f) :
             f \in {"color_palette", "lighting", "contrast", "texture"}}
PhotographyMissing ==
    {EmptyDict, Without(BasePhotography, "name"), Without(BasePhotography, "technical"),
     Without(BasePhotography, "aesthetic"), Without(BasePhotography, "context"),
     WithoutIn(BasePhotography, "technical", "focal_length"),
     WithoutIn(BasePhotography, "technical", "typical_aperture_range"),
     WithoutIn(BasePhotography, "aesthetic", "composition"),
     WithoutIn(BasePhotography, "context", "typical_uses")}

(***************************************************************************)
(* The morphospace layer (magazine_photography_mcp.py, 551-1254): the      *)
(* catalogs, the trajectory engine and the tools built on them.            *)
(*                                                                         *)
(* A coordinate is kept to four decimals, the resolution at which the      *)
(* tools report it: the integer v stands for the float v / Scale.  A       *)
(* distance is carried as the sum under its square root, in units of       *)
(* 1 / Scale^2; math.sqrt is increasing, so comparing two distances is     *)
(* comparing the two sums.  An Optional[int] argument is the empty tuple   *)
(* for None and <<n>> for the integer n.  A raised exception is the record *)
(* [exception |-> its type].                                               *)
(***************************************************************************)
Scale == 10000

\* float("inf") of the nearest-neighbour search: above every sum of six squares
Infinity == 2147483647

MAGPHOTO_PARAMETER_NAMES ==
    << "color_saturation",
       "detail_sharpness",
       "mood_intensity",
       "contrast_level",
       "temporal_warmth",
       "compositional_formality" >>

MAGPHOTO_COORDS ==
    [ editorial_glamour |->
          [ color_saturation |-> 8500,
            detail_sharpness |-> 8000,
            mood_intensity |-> 7000,
            contrast_level |-> 6500,
            temporal_warmth |-> 4000,
            compositional_formality |-> 9000 ],
      documentary_grit |->
          [ color_saturation |-> 4500,
            detail_sharpness |-> 6000,
            mood_intensity |-> 8000,
            contrast_level |-> 8500,
            temporal_warmth |-> 5500,
            compositional_formality |-> 1500 ],
      minimalist_modern |->
          [ color_saturation |-> 2500,
            detail_sharpness |-> 7500,
            mood_intensity |-> 2000,
            contrast_level |-> 3000,
            temporal_warmth |-> 2500,
            compositional_formality |-> 6000 ],
      avant_garde_experimental |->
          [ color_saturation |-> 6500,
            detail_sharpness |-> 4000,
            mood_intensity |-> 9500,
            contrast_level |-> 7500,
            temporal_warmth |-> 3500,
            compositional_formality |-> 1000 ],
      golden_age_portrait |->
          [ color_saturation |-> 6000,
            detail_sharpness |-> 7000,
            mood_intensity |-> 5500,
            contrast_level |-> 5000,
            temporal_warmth |-> 8500,
            compositional_formality |-> 8000 ],
      street_candid |->
          [ color_saturation |-> 5000,
            detail_sharpness |-> 4500,
            mood_intensity |-> 6000,
            contrast_level |-> 7000,
            temporal_warmth |-> 5000,
            compositional_formality |-> 500 ],
      nature_sublime |->
          [ color_saturation |-> 9000,
            detail_sharpness |-> 8500,
            mood_intensity |-> 7500,
            contrast_level |-> 5500,
            temporal_warmth |-> 6000,
            compositional_formality |-> 5000 ] ]

\* list(MAGPHOTO_COORDS.keys()): a dict keeps the order in which it was written
MAGPHOTO_COORDS_keys ==
    <<"editorial_glamour",
      "documentary_grit",
      "minimalist_modern",
      "avant_garde_experimental",
      "golden_age_portrait",
      "street_candid",
      "nature_sublime">>

MAGPHOTO_RHYTHMIC_PRESETS ==
    [ editorial_sweep |->
          [ state_a |-> "editorial_glamour", state_b |-> "minimalist_modern",
            pattern |-> "sinusoidal", num_cycles |-> 3, steps_per_cycle |-> 20,
            description |->
              "Fashion editorial cycling between glamour saturation and minimalist restraint" ],
      era_drift |->
          [ state_a |-> "golden_age_portrait", state_b |-> "minimalist_modern",
            pattern |-> "sinusoidal", num_cycles |-> 3, steps_per_cycle |-> 24,
            description |->
              "Temporal drift between warm vintage portraiture and cool modern minimalism" ],
      tension_pulse |->
          [ state_a |-> "documentary_grit", state_b |-> "avant_garde_experimental",
            pattern |-> "sinusoidal", num_cycles |-> 4, steps_per_cycle |-> 16,
            description |->
              "Rhythmic pulse between raw documentary honesty and experimental abstraction" ],
      mood_arc |->
          [ state_a |-> "minimalist_modern", state_b |-> "nature_sublime",
            pattern |-> "triangular", num_cycles |-> 2, steps_per_cycle |-> 30,
            description |->
              "Gradual arc from quiet minimalism to sublime natural drama and back" ],
      formality_toggle |->
          [ state_a |-> "street_candid", state_b |-> "editorial_glamour",
            pattern |-> "square", num_cycles |-> 5, steps_per_cycle |-> 12,
            description |->
              "Sharp toggle between raw street spontaneity and controlled editorial staging" ] ]

MAGPHOTO_RHYTHMIC_PRESETS_keys ==
    <<"editorial_sweep", "era_drift", "tension_pulse", "mood_arc", "formality_toggle">>

MAGPHOTO_VISUAL_TYPES ==
    [ editorial_polished |->
          [ coords |->
              [ color_saturation |-> 8500,
                detail_sharpness |-> 8000,
                mood_intensity |-> 6500,
                contrast_level |-> 6000,
                temporal_warmth |-> 4000,
                compositional_formality |-> 9000 ],
            keywords |->
              << "editorial fashion photography",
                 "studio-lit with precise shadows",
                 "retouched skin and fabric textures",
                 "saturated color palette with designer precision",
                 "geometric composition with deliberate negative space",
                 "glossy magazine-spread finish",
                 "high-end commercial aesthetic" >>,
            optical_properties |->
              [ finish |-> "glossy",
                 lighting |-> "controlled multi-source studio",
                 grain |-> "none",
                 depth_of_field |-> "selective razor focus" ] ],
      raw_documentary |->
          [ coords |->
              [ color_saturation |-> 4500,
                detail_sharpness |-> 5500,
                mood_intensity |-> 8000,
                contrast_level |-> 8500,
                temporal_warmth |-> 5500,
                compositional_formality |-> 1500 ],
            keywords |->
              << "raw photojournalistic documentary",
                 "available light with deep shadows",
                 "visible film grain and optical imperfections",
                 "high-contrast tonal range",
                 "unposed decisive-moment composition",
                 "gritty street-level authenticity",
                 "analog warmth with honest texture" >>,
            optical_properties |->
              [ finish |-> "matte",
                 lighting |-> "available/natural with hard shadows",
                 grain |-> "pronounced film grain",
                 depth_of_field |-> "deep environmental focus" ] ],
      ethereal_minimal |->
          [ coords |->
              [ color_saturation |-> 2500,
                detail_sharpness |-> 7000,
                mood_intensity |-> 2000,
                contrast_level |-> 2500,
                temporal_warmth |-> 2500,
                compositional_formality |-> 6000 ],
            keywords |->
              << "airy minimalist photography",
                 "soft diffused even lighting",
                 "desaturated muted pastel tones",
                 "expansive negative space with clean geometry",
                 "understated quiet presence",
                 "fine-art gallery aesthetic",
                 "crisp detail within restrained palette" >>,
            optical_properties |->
              [ finish |-> "matte with slight luminosity",
                 lighting |-> "diffused overcast softbox",
                 grain |-> "none, clean sensor",
                 depth_of_field |-> "moderate, subject isolation" ] ],
      dramatic_cinematic |->
          [ coords |->
              [ color_saturation |-> 7000,
                detail_sharpness |-> 5000,
                mood_intensity |-> 9000,
                contrast_level |-> 8000,
                temporal_warmth |-> 5000,
                compositional_formality |-> 3500 ],
            keywords |->
              << "cinematic narrative photography",
                 "chiaroscuro lighting with motivated sources",
                 "rich color grading with teal-orange or complementary split",
                 "atmospheric haze and volumetric light",
                 "widescreen compositional framing",
                 "emotionally charged with filmic tension",
                 "shallow depth isolating subject from environment" >>,
            optical_properties |->
              [ finish |-> "filmic with subtle halation",
                 lighting |-> "motivated practical sources with controlled spill",
                 grain |-> "subtle filmic texture",
                 depth_of_field |-> "shallow cinematic bokeh" ] ],
      vintage_analog |->
          [ coords |->
              [ color_saturation |-> 5500,
                detail_sharpness |-> 4500,
                mood_intensity |-> 5500,
                contrast_level |-> 5000,
                temporal_warmth |-> 9000,
                compositional_formality |-> 7000 ],
            keywords |->
              << "vintage analog film photography",
                 "warm color cast with lifted blacks",
                 "soft optical rendering with gentle vignette",
                 "Kodachrome or Ektachrome color science",
                 "period-correct styling and staging",
                 "nostalgic golden-hour warmth",
                 "hand-printed darkroom finish" >>,
            optical_properties |->
              [ finish |-> "semi-matte with warm cast",
                 lighting |-> "golden-hour natural or tungsten",
                 grain |-> "organic film grain, medium format",
                 depth_of_field |-> "vintage lens rendering with swirl bokeh" ] ] ]

\* MAGPHOTO_VISUAL_TYPES.items() runs through the types in this order
MAGPHOTO_VISUAL_TYPES_keys ==
    <<"editorial_polished",
      "raw_documentary",
      "ethereal_minimal",
      "dramatic_cinematic",
      "vintage_analog">>

(***************************************************************************)
(* The olog layer's entry points (magazine_photography_mcp.py, 105-149).   *)
(***************************************************************************)
Magazines == MagazineGrid \cup (MagazineEras \cup (MagazineMissing \cup MagazineTexts))
Photographies ==
    PhotographyGrid \cup (PhotographyNames \cup (PhotographyMissing \cup PhotographyTexts))

\* the (magazine, photography) pairs whose compatibility is calculated
Pairs ==
    (MagazineGrid \X PhotographyGrid)
    \cup ((MagazineEras \X PhotographyNames)
          \cup ((MagazineMissing \X {BasePhotography, EmptyDict})
                \cup (({BaseMagazine, EmptyDict} \X PhotographyMissing)
                      \cup ((MagazineTexts \X {BasePhotography})
                            \cup ({BaseMagazine} \X PhotographyTexts)))))

InitOsc0 ==
    /\ num_steps = 0
    /\ num_cycles = [cn |-> 1, cd |-> 1]
    /\ pattern = "sinusoidal"
    /\ osc = [kind |-> "none"]

InitOlog0 ==
    /\ magazine = None
    /\ photography = None
    /\ mag_profile = None
    /\ photo_profile = None
    /\ scores = None
    /\ pre = None
    /\ pc = "start"

InitMorph0 ==
    /\ tool = "none"
    /\ args = EmptyDict
    /\ result = EmptyDict
    /\ locals = EmptyDict

InitStore0 ==
    store = [ MAGPHOTO_COORDS |-> MAGPHOTO_COORDS,
              MAGPHOTO_RHYTHMIC_PRESETS |-> MAGPHOTO_RHYTHMIC_PRESETS,
              MAGPHOTO_VISUAL_TYPES |-> MAGPHOTO_VISUAL_TYPES,
              magazine |-> None,
              photography |-> None ]

Init == InitOlog0 /\ InitOsc0 /\ InitMorph0 /\ InitStore0

\* the caller's record after a classifier or the scorer went through it: they read it
\* with .get(key, default) only, which stores nothing in it
record_after_read(record) == record

extract_magazine_olog ==
    /\ pc = "start"
    /\ tool = "none"
    /\ \E m \in Magazines :
          /\ magazine' = m
          /\ mag_profile' = magazine_to_visual_treatment(m)
          /\ store' = [store EXCEPT !.magazine = record_after_read(m)]
    /\ pc' = "magazine_olog"
    /\ UNCHANGED <<photography, photo_profile, scores, pre>>
    /\ UNCHANGED oscVars
    /\ UNCHANGED morphVars

extract_photography_olog ==
    /\ pc = "start"
    /\ tool = "none"
    /\ \E p \in Photographies :
          /\ photography' = p
          /\ photo_profile' = photography_to_technical_profile(p)
          /\ store' = [store EXCEPT !.photography = record_after_read(p)]
    /\ pc' = "photography_olog"
    /\ UNCHANGED <<magazine, mag_profile, scores, pre>>
    /\ UNCHANGED oscVars
    /\ UNCHANGED morphVars

calculate_compatibility_deterministic ==
    /\ pc = "start"
    /\ tool = "none"
    /\ \E pair \in Pairs :
          LET m    == pair[1]
              p    == pair[2]
              mp   == magazine_to_visual_treatment(m)
              pp   == photography_to_technical_profile(p)
              era  == Get(Get(m, "era", EmptyDict), "label", "")
              name == Get(p, "name", "")
          IN  /\ magazine' = m
              /\ photography' = p
              /\ mag_profile' = mp
              /\ photo_profile' = pp
              /\ pre' = compatibility_locals(mp, pp, era, name)
              /\ scores' = compatibility_mapping(mp, pp, era, name)
              /\ store' = [store EXCEPT !.magazine = record_after_read(m),
                                        !.photography = record_after_read(p)]
    /\ pc' = "compatibility"
    /\ UNCHANGED oscVars
    /\ UNCHANGED morphVars

Next ==
    \/ extract_magazine_olog
    \/ extract_photography_olog
    \/ calculate_compatibility_deterministic

Spec == Init /\ [][Next]_vars

(***************************************************************************)
(* The oscillation engine (magazine_photography_mcp.py, 818-833).          *)
(*                                                                         *)
(* num_cycles is the rational cn/cd, so the cycle position of sample i,    *)
(* num_cycles * i / num_steps, is the exact fraction (cn*i)/(cd*num_steps).*)
(* The code computes it in floating point, as (2*pi*c*i/n)/(2*pi): where   *)
(* the exact position is a whole or a half number of cycles the rounded    *)
(* value may fall just below it, on it or just above it, and the           *)
(* comparisons with 0.5 and the `% 1.0` see the rounded value.  A number   *)
(* is therefore a fraction n/d with a sign e in {-1, 0, 1}: the value is   *)
(* n/d + e*eps for an eps smaller than every gap of the model.  Sample 0   *)
(* is exact: 2*pi*c*0/n is 0.0, and so is every sample when num_cycles is  *)
(* 0.                                                                      *)
(***************************************************************************)
Num(n, d, e) == [n |-> n, d |-> d, e |-> e]

\* x < 1/2
LessThanHalf(x) == 2 * x.n < x.d \/ (2 * x.n = x.d /\ x.e < 0)

\* the exact cycle position of sample i, as a fraction of one cycle in [0, 1)
exact_position(i, steps, cycles) ==
    Num((cycles.cn * i) % (cycles.cd * steps), cycles.cd * steps, 0)

\* where rounding can go either way: a position exactly on a whole or a half cycle
Roundings(i, steps, cycles) ==
    LET x == exact_position(i, steps, cycles)
    IN  IF cycles.cn * i > 0 /\ (x.n = 0 \/ 2 * x.n = x.d) THEN {-1, 0, 1} ELSE {0}

\* (v / (2.0 * math.pi)) % 1.0, rounded in direction e
t_norm(i, steps, cycles, e) ==
    LET x == exact_position(i, steps, cycles)
    IN  IF x.n = 0 /\ e < 0 THEN Num(x.d, x.d, e) ELSE Num(x.n, x.d, e)

\* math.sin(v) for v = 2*pi*x, by Bhaskara's rational approximation
\* sin(pi*w) = 16w(1-w) / (5 - 4w(1-w)) on each half cycle; the result is sn/sd
sin_turns(x) ==
    LET a == IF 2 * x.n <= x.d THEN 2 * x.n ELSE 2 * x.n - x.d
        s == 16 * a * (x.d - a)
        d == 5 * x.d * x.d - 4 * a * (x.d - a)
    IN  [sn |-> IF 2 * x.n <= x.d THEN s ELSE 0 - s, sd |-> d]

\* 0.5 * (1.0 + math.sin(v))
sinusoidal(i, steps, cycles) ==
    LET s == sin_turns(exact_position(i, steps, cycles))
    IN  Num(s.sd + s.sn, 2 * s.sd, 0)

triangular_unfolded(u) == Num(2 * u.n, u.d, u.e)

\* 2.0 * t_norm if t_norm < 0.5 else 2.0 * (1.0 - t_norm)
triangular(u) ==
    IF LessThanHalf(u) THEN Num(2 * u.n, u.d, u.e)
    ELSE Num(2 * (u.d - u.n), u.d, 0 - u.e)

\* 0.0 if t_norm < 0.5 else 1.0
square(u) == IF LessThanHalf(u) THEN Num(0, 1, 0) ELSE Num(1, 1, 0)

Patterns == {"sinusoidal", "triangular", "square"}

\* range(num_steps) as the indices of a list
Range(steps) == 0..(steps - 1)

\* a list (a sequence indexed from 1) of the values f[0], ..., f[steps-1]
List(f, steps) == [k \in 1..Max(steps, 0) |-> f[k - 1]]

_generate_oscillation_lenient(steps, cycles, pat, err) ==
    IF pat = "sinusoidal"
    THEN [ kind |-> "list",
           values |-> List([i \in Range(steps) |-> sinusoidal(i, steps, cycles)], steps) ]
    ELSE IF pat = "triangular"
    THEN [ kind |-> "list",
           values |-> List([i \in Range(steps) |->
                               triangular(t_norm(i, steps, cycles, err[i]))], steps) ]
    ELSE IF pat = "square"
    THEN [ kind |-> "list",
           values |-> List([i \in Range(steps) |->
                               square(t_norm(i, steps, cycles, err[i]))], steps) ]
    ELSE [ kind |-> "list", values |-> <<>> ]

\* err[i] is the direction in which sample i's cycle position is rounded
_generate_oscillation(steps, cycles, pat, err) ==
    IF pat = "sinusoidal"
    THEN [ kind |-> "list",
           values |-> List([i \in Range(steps) |-> sinusoidal(i, steps, cycles)], steps) ]
    ELSE IF pat = "triangular"
    THEN [ kind |-> "list",
           values |-> List([i \in Range(steps) |->
                               triangular(t_norm(i, steps, cycles, err[i]))], steps) ]
    ELSE IF pat = "square"
    THEN [ kind |-> "list",
           values |-> List([i \in Range(steps) |->
                               square(t_norm(i, steps, cycles, err[i]))], steps) ]
    ELSE [ kind |-> "ValueError", message |-> "Unknown pattern: " \o pat ]

\* the rounding directions the floating-point evaluation can take
RoundingChoices(steps, cycles) ==
    LET inexact == {i \in Range(steps) : Roundings(i, steps, cycles) # {0}}
    IN  {[i \in Range(steps) |-> IF i \in inexact THEN f[i] ELSE 0] :
            f \in [inexact -> {-1, 0, 1}]}

PatternNames == Patterns \cup {"sawtooth", "Square", ""}

Cycles == {[cn |-> a, cd |-> b] : a \in 1..MaxCycleNum, b \in 1..MaxCycleDen}

generate_oscillation ==
    /\ osc.kind = "none"
    /\ \E steps \in (-1)..MaxSteps, cycles \in Cycles, pat \in PatternNames :
          \E err \in RoundingChoices(steps, cycles) :
              /\ num_steps' = steps
              /\ num_cycles' = cycles
              /\ pattern' = pat
              /\ osc' = _generate_oscillation(steps, cycles, pat, err)
    /\ UNCHANGED ologVars
    /\ UNCHANGED morphVars
    /\ UNCHANGED store

NextOsc == generate_oscillation

SpecOsc == Init /\ [][NextOsc]_vars

(***************************************************************************)
(* The trajectory engine of the morphospace layer.                         *)
(***************************************************************************)
RECURSIVE JoinWithFrom(_, _, _)
JoinWithFrom(words, sep, i) ==
    IF i > Len(words) THEN ""
    ELSE IF i = Len(words) THEN words[i]
    ELSE words[i] \o sep \o JoinWithFrom(words, sep, i + 1)

\* sep.join(words)
JoinWith(words, sep) == JoinWithFrom(words, sep, 1)

\* the elements of a list
Elements(list) == {list[k] : k \in 1..Len(list)}

RECURSIVE FilterFrom(_, _, _)
FilterFrom(list, absent, i) ==
    IF i > Len(list) THEN <<>>
    ELSE IF list[i] \in absent THEN <<list[i]>> \o FilterFrom(list, absent, i + 1)
    ELSE FilterFrom(list, absent, i + 1)

\* [p for p in MAGPHOTO_PARAMETER_NAMES if p not in state]
MissingParameters(state) ==
    FilterFrom(MAGPHOTO_PARAMETER_NAMES,
               Elements(MAGPHOTO_PARAMETER_NAMES) \ DOMAIN state, 1)

RECURSIVE ReprFrom(_, _)
ReprFrom(list, i) ==
    IF i > Len(list) THEN ""
    ELSE IF i = Len(list) THEN "'" \o list[i] \o "'"
    ELSE "'" \o list[i] \o "', " \o ReprFrom(list, i + 1)

\* how an f-string prints a list of strings
Repr(list) == "[" \o ReprFrom(list, 1) \o "]"

\* x * (n/d) for a float x kept as a fraction
Times(x, n, d) == Num(x.n * n, x.d * d, x.e)

\* min(1.0, max(0.0, v))
clamp01(x) ==
    IF x.n < 0 THEN Num(0, x.d, 0)
    ELSE IF x.n > x.d THEN Num(x.d, x.d, 0)
    ELSE x

\* round(v, 4), in units of 1 / Scale: to the nearest, a tie going to the even
\* neighbour; the denominator of v is a multiple of Scale
round(x) ==
    LET k == x.d \div Scale
        q == x.n \div k
        r == x.n % k
    IN  IF 2 * r < k THEN q
        ELSE IF 2 * r > k THEN q + 1
        ELSE IF x.e < 0 THEN q
        ELSE IF x.e > 0 THEN q + 1
        ELSE IF q % 2 = 0 THEN q ELSE q + 1

\* the float that a coordinate stands for
Float(v) == Num(v, Scale, 0)

RECURSIVE SqrtBetween(_, _, _)
SqrtBetween(sq, lo, hi) ==
    IF lo >= hi THEN lo
    ELSE LET mid == (lo + hi + 1) \div 2
         IN  IF mid * mid <= sq THEN SqrtBetween(sq, mid, hi)
             ELSE SqrtBetween(sq, lo, mid - 1)

\* round(dist, 4) for the distance whose sum of squares is sq, in units of 1 / Scale
round_sqrt(sq) ==
    LET r == SqrtBetween(sq, 0, 46340)
    IN  IF sq - r * r <= r THEN r ELSE r + 1

RECURSIVE GCD(_, _)
GCD(m, n) == IF n = 0 THEN m ELSE GCD(n, m % n)

\* state_a[p] * (1.0 - alpha) + state_b[p] * alpha, to the nearest 1 / Scale;
\* a + alpha * b where the code has a + alpha * (b - a)
lerp_summed(a, b, alpha) ==
    LET g == GCD(alpha.d, alpha.n)
        n == alpha.n \div g
        d == alpha.d \div g
    IN  (2 * (a * d + b * n) + d) \div (2 * d)

\* alpha is taken in lowest terms
lerp(a, b, alpha) ==
    LET g == GCD(alpha.d, alpha.n)
        n == alpha.n \div g
        d == alpha.d \div g
    IN  (2 * (a * (d - n) + b * n) + d) \div (2 * d)

_interpolate_states_swapped(state_a, state_b, alpha) ==
    [p \in Elements(MAGPHOTO_PARAMETER_NAMES) |-> lerp(state_b[p], state_a[p], alpha)]

_interpolate_states(state_a, state_b, alpha) ==
    [p \in Elements(MAGPHOTO_PARAMETER_NAMES) |-> lerp(state_a[p], state_b[p], alpha)]

RECURSIVE SumSquaresFrom(_, _, _)
SumSquaresFrom(a, b, i) ==
    IF i > Len(MAGPHOTO_PARAMETER_NAMES) THEN 0
    ELSE LET p == MAGPHOTO_PARAMETER_NAMES[i]
         IN  (a[p] - b[p]) * (a[p] - b[p]) + SumSquaresFrom(a, b, i + 1)

_euclidean_distance_signed(a, b) ==
    SumSquaresFrom(a, b, 1) + (a.color_saturation - b.color_saturation)

\* sum((a[p] - b[p]) ** 2 for p in MAGPHOTO_PARAMETER_NAMES), the square of the distance
_euclidean_distance(a, b) == SumSquaresFrom(a, b, 1)

RECURSIVE NearestLastFrom(_, _, _)
NearestLastFrom(state, i, best) ==
    IF i > Len(MAGPHOTO_VISUAL_TYPES_keys) THEN best
    ELSE LET type_name == MAGPHOTO_VISUAL_TYPES_keys[i]
             type_data == MAGPHOTO_VISUAL_TYPES[type_name]
             d == _euclidean_distance(state, type_data.coords)
         IN  IF d <= best[2]
             THEN NearestLastFrom(state, i + 1, <<type_name, d, type_data>>)
             ELSE NearestLastFrom(state, i + 1, best)

_find_nearest_visual_type_last(state) ==
    NearestLastFrom(state, 1, <<None, Infinity, None>>)

\* the loop over MAGPHOTO_VISUAL_TYPES.items() from the i-th type on;
\* best is (best_name, best_dist, best_data)
RECURSIVE NearestFrom(_, _, _)
NearestFrom(state, i, best) ==
    IF i > Len(MAGPHOTO_VISUAL_TYPES_keys) THEN best
    ELSE LET type_name == MAGPHOTO_VISUAL_TYPES_keys[i]
             type_data == MAGPHOTO_VISUAL_TYPES[type_name]
             d == _euclidean_distance(state, type_data.coords)
         IN  IF d < best[2]
             THEN NearestFrom(state, i + 1, <<type_name, d, type_data>>)
             ELSE NearestFrom(state, i + 1, best)

\* (best_name, best_dist, best_data)
_find_nearest_visual_type(state) ==
    NearestFrom(state, 1, <<None, Infinity, None>>)

\* the rounding directions that change a four-decimal state: a cycle position
\* rounded up gives the same state as the exact one
RoundingsKept(steps, cycles) ==
    LET inexact == {i \in Range(steps) : Roundings(i, steps, cycles) # {0}}
    IN  {[i \in Range(steps) |-> IF i \in below THEN -1 ELSE 0] : below \in SUBSET inexact}

\* an integer num_cycles as the fraction the oscillator takes
Whole(c) == [cn |-> c, cd |-> 1]

\* the locals of _generate_preset_trajectory when it returns
preset_trajectory_locals(preset_name, err) ==
    LET preset      == MAGPHOTO_RHYTHMIC_PRESETS[preset_name]
        total_steps == preset.num_cycles * preset.steps_per_cycle
    IN  [ state_a |-> MAGPHOTO_COORDS[preset.state_a],
          state_b |-> MAGPHOTO_COORDS[preset.state_b],
          total_steps |-> total_steps,
          alphas |-> _generate_oscillation(total_steps, Whole(preset.num_cycles),
                                           preset.pattern, err).values ]

\* [_interpolate_states(state_a, state_b, a) for a in alphas]
trajectory_of(l) ==
    [k \in 1..Len(l.alphas) |-> _interpolate_states(l.state_a, l.state_b, l.alphas[k])]

_generate_preset_trajectory(preset_name, err) ==
    trajectory_of(preset_trajectory_locals(preset_name, err))

(***************************************************************************)
(* The morphospace tools.                                                  *)
(***************************************************************************)
\* value of an Optional argument
NoneGiven == <<>>
Some(v) == <<v>>

\* a // b of Python, which rounds towards minus infinity (b # 0)
FloorDiv(a, b) ==
    IF b > 0 THEN (IF a >= 0 THEN a \div b ELSE 0 - ((0 - a + b - 1) \div b))
    ELSE (IF a <= 0 THEN (0 - a) \div (0 - b) ELSE 0 - ((a - b - 1) \div (0 - b)))

get_aesthetic_state_coordinates(state_name) ==
    IF state_name \notin DOMAIN MAGPHOTO_COORDS
    THEN [ error |-> "Unknown state '" \o state_name \o "'",
           available_states |-> MAGPHOTO_COORDS_keys ]
    ELSE [ state_name |-> state_name,
           domain |-> "magazine_photography",
           parameter_names |-> MAGPHOTO_PARAMETER_NAMES,
           coordinates |-> MAGPHOTO_COORDS[state_name] ]

rhythmic_total_one_cycle(preset, override) ==
    IF override = NoneGiven \/ override[1] = 0
    THEN preset.steps_per_cycle
    ELSE override[1]

rhythmic_total_extra_cycle(preset, override) ==
    IF override = NoneGiven \/ override[1] = 0
    THEN (preset.num_cycles + 1) * preset.steps_per_cycle
    ELSE override[1]

\* total = num_steps or (preset["num_cycles"] * preset["steps_per_cycle"])
rhythmic_total(preset, override) ==
    IF override = NoneGiven \/ override[1] = 0
    THEN preset.num_cycles * preset.steps_per_cycle
    ELSE override[1]

\* num_cycles = preset["num_cycles"] if num_steps is None
\*              else num_steps / preset["steps_per_cycle"]
rhythmic_num_cycles(preset, override) ==
    IF override = NoneGiven THEN Whole(preset.num_cycles)
    ELSE [cn |-> override[1], cd |-> preset.steps_per_cycle]

\* the locals of generate_rhythmic_sequence when it returns its payload
rhythmic_locals(preset_name, override, err) ==
    LET preset     == MAGPHOTO_RHYTHMIC_PRESETS[preset_name]
        total      == rhythmic_total(preset, override)
        cycles     == rhythmic_num_cycles(preset, override)
    IN  [ state_a |-> MAGPHOTO_COORDS[preset.state_a],
          state_b |-> MAGPHOTO_COORDS[preset.state_b],
          total |-> total,
          num_cycles |-> cycles,
          alphas |-> _generate_oscillation(total, cycles, preset.pattern, err).values ]

\* l is rhythmic_locals of this call
generate_rhythmic_sequence(preset_name, l) ==
    IF preset_name \notin DOMAIN MAGPHOTO_RHYTHMIC_PRESETS
    THEN [ error |-> "Unknown preset '" \o preset_name \o "'",
           available_presets |-> MAGPHOTO_RHYTHMIC_PRESETS_keys ]
    ELSE LET preset == MAGPHOTO_RHYTHMIC_PRESETS[preset_name]
         IN  [ domain |-> "magazine_photography",
               preset |-> preset_name,
               description |-> preset.description,
               period |-> preset.steps_per_cycle,
               total_steps |-> l.total,
               pattern |-> preset.pattern,
               state_a |-> preset.state_a,
               state_b |-> preset.state_b,
               parameter_names |-> MAGPHOTO_PARAMETER_NAMES,
               trajectory |-> trajectory_of(l) ]

\* {"subtle": 0.6, "moderate": 1.0, "dramatic": 1.4}.get(intensity, 1.0), in tenths
intensity_scale(intensity) ==
    IF intensity = "subtle" THEN 6
    ELSE IF intensity = "moderate" THEN 10
    ELSE IF intensity = "dramatic" THEN 14
    ELSE 10

\* the emphasis dict's .get(emphasis): None for a key it does not hold
emphasis_param(emphasis) ==
    IF emphasis = "color" THEN "color_saturation"
    ELSE IF emphasis = "detail" THEN "detail_sharpness"
    ELSE IF emphasis = "mood" THEN "mood_intensity"
    ELSE IF emphasis = "contrast" THEN "contrast_level"
    ELSE IF emphasis = "warmth" THEN "temporal_warmth"
    ELSE IF emphasis = "composition" THEN "compositional_formality"
    ELSE None

scaled_parameter_unclamped(v, p, intensity, emphasis) ==
    IF p = emphasis_param(emphasis)
    THEN round(Times(Times(Float(v), intensity_scale(intensity), 10), 12, 10))
    ELSE round(Times(Float(v), intensity_scale(intensity), 10))

\* the body of the loop over MAGPHOTO_PARAMETER_NAMES: params[p] for base[p] = v
scaled_parameter(v, p, intensity, emphasis) ==
    IF p = emphasis_param(emphasis)
    THEN round(clamp01(Times(Times(Float(v), intensity_scale(intensity), 10), 12, 10)))
    ELSE round(clamp01(Times(Float(v), intensity_scale(intensity), 10)))

coords_after_map_in_place(coords, state_name, intensity, emphasis) ==
    IF state_name \notin DOMAIN coords THEN coords
    ELSE [coords EXCEPT ![state_name] =
             [p \in Elements(MAGPHOTO_PARAMETER_NAMES) |->
                 scaled_parameter(coords[state_name][p], p, intensity, emphasis)]]

\* MAGPHOTO_COORDS after the loop over the parameters: base is a copy of the catalog
\* entry, and params[p] = round(v, 4) stores into a dict of its own
coords_after_map(coords, state_name, intensity, emphasis) == coords

map_magazine_photography_parameters(state_name, intensity, emphasis) ==
    IF state_name \notin DOMAIN MAGPHOTO_COORDS
    THEN [ error |-> "Unknown state '" \o state_name \o "'",
           available_states |-> MAGPHOTO_COORDS_keys ]
    ELSE LET base == MAGPHOTO_COORDS[state_name]
         IN  [ domain |-> "magazine_photography",
               state |-> state_name,
               intensity |-> intensity,
               emphasis |-> emphasis,
               parameters |-> [p \in Elements(MAGPHOTO_PARAMETER_NAMES) |->
                                  scaled_parameter(base[p], p, intensity, emphasis)],
               parameter_names |-> MAGPHOTO_PARAMETER_NAMES ]

\* the square of the threshold k / 10, in the units of a squared distance
SquareOfTenths(k) == ((k * Scale) \div 10) * ((k * Scale) \div 10)

transition_characterization_late(dist) ==
    IF dist < SquareOfTenths(4) THEN "smooth"
    ELSE IF dist < SquareOfTenths(8) THEN "moderate"
    ELSE "dramatic"

\* "smooth" if dist < 0.4 else "moderate" if dist < 0.7 else "dramatic",
\* on the square of the distance
transition_characterization(dist) ==
    IF dist < SquareOfTenths(4) THEN "smooth"
    ELSE IF dist < SquareOfTenths(7) THEN "moderate"
    ELSE "dramatic"

\* abs(x)
Abs(x) == IF x < 0 THEN 0 - x ELSE x

\* max(per_param, key=per_param.get): the first key, in the order the dict was
\* written, that holds the largest value
RECURSIVE ArgMaxFrom(_, _, _)
ArgMaxFrom(per_param, i, best) ==
    IF i > Len(MAGPHOTO_PARAMETER_NAMES) THEN best
    ELSE LET p == MAGPHOTO_PARAMETER_NAMES[i]
         IN  IF per_param[p] > per_param[best] THEN ArgMaxFrom(per_param, i + 1, p)
             ELSE ArgMaxFrom(per_param, i + 1, best)

compute_aesthetic_distance(state_a_name, state_b_name) ==
    IF state_a_name \notin DOMAIN MAGPHOTO_COORDS
    THEN [ error |-> "Unknown state '" \o state_a_name \o "'",
           available |-> MAGPHOTO_COORDS_keys ]
    ELSE IF state_b_name \notin DOMAIN MAGPHOTO_COORDS
    THEN [ error |-> "Unknown state '" \o state_b_name \o "'",
           available |-> MAGPHOTO_COORDS_keys ]
    ELSE LET a == MAGPHOTO_COORDS[state_a_name]
             b == MAGPHOTO_COORDS[state_b_name]
             dist == _euclidean_distance(a, b)
             per_param == [p \in Elements(MAGPHOTO_PARAMETER_NAMES) |->
                              round(Float(Abs(a[p] - b[p])))]
             max_param == ArgMaxFrom(per_param, 2, MAGPHOTO_PARAMETER_NAMES[1])
         IN  [ state_a |-> state_a_name,
               state_b |-> state_b_name,
               euclidean_distance |-> round_sqrt(dist),
               per_parameter_difference |-> per_param,
               largest_difference |-> [parameter |-> max_param, value |-> per_param[max_param]],
               transition_characterization |-> transition_characterization(dist) ]

\* f"{style_modifier + ', ' if style_modifier else ''}{', '.join(kw)}"
prompt_of(style_modifier, kw) ==
    (IF style_modifier # "" THEN style_modifier \o ", " ELSE "") \o JoinWith(kw, ", ")

\* {p: round(st[p], 4) for p in MAGPHOTO_PARAMETER_NAMES}
rounded_state(st) ==
    [p \in Elements(MAGPHOTO_PARAMETER_NAMES) |-> round(Float(st[p]))]

step_size_unguarded(total, keyframe_count) == FloorDiv(total, keyframe_count)

\* step_size = max(1, total // keyframe_count)
step_size(total, keyframe_count) == Max(1, FloorDiv(total, keyframe_count))

\* one turn of the loop `for k in range(keyframe_count)`; a list is indexed from 1 here
keyframe(k, trajectory, keyframe_count, style_modifier) ==
    LET total == Len(trajectory)
        idx   == Min(k * step_size(total, keyframe_count), total - 1)
        st    == trajectory[idx + 1]
        near  == _find_nearest_visual_type(st)
    IN  [ step |-> idx,
          state |-> rounded_state(st),
          nearest_type |-> near[1],
          distance |-> round_sqrt(near[2]),
          prompt |-> prompt_of(style_modifier, near[3].keywords) ]

\* kw[i] if len(kw) > i else '' for the Python index i
keyword_at(kw, i) == IF Len(kw) > i THEN kw[i + 1] ELSE ""

\* the part of generate_attractor_prompt that follows the nearest-neighbour match
attractor_payload(state, state_source, mode, style_modifier) ==
    LET near      == _find_nearest_visual_type(state)
        type_name == near[1]
        dist      == near[2]
        type_data == near[3]
        kw        == type_data.keywords
        optical   == type_data.optical_properties
        prefix    == IF style_modifier # "" THEN style_modifier \o ", " ELSE ""
    IN  IF mode = "composite"
        THEN [ domain |-> "magazine_photography",
               mode |-> "composite",
               source |-> state_source,
               nearest_type |-> type_name,
               distance |-> round_sqrt(dist),
               prompt |-> prompt_of(style_modifier, kw),
               vocabulary |-> [keywords |-> kw, optical |-> optical],
               state |-> rounded_state(state) ]
        ELSE IF mode = "split_view"
        THEN [ domain |-> "magazine_photography",
               mode |-> "split_view",
               source |-> state_source,
               nearest_type |-> type_name,
               distance |-> round_sqrt(dist),
               sections |->
                 [ color_and_tone |->
                     prefix \o keyword_at(kw, 3) \o ", " \o Get(optical, "finish", ""),
                   lighting |->
                     prefix \o keyword_at(kw, 1) \o ", " \o Get(optical, "lighting", ""),
                   texture_and_detail |->
                     prefix \o keyword_at(kw, 2) \o ", " \o Get(optical, "grain", ""),
                   mood_and_composition |->
                     prefix \o keyword_at(kw, 4) \o ", " \o keyword_at(kw, 5) ],
               state |-> rounded_state(state) ]
        ELSE [ error |-> "Unknown mode '" \o mode
                           \o "'. Use composite, split_view, or sequence." ]

\* `not preset_name`: None or the empty string
NoPresetName(preset_name) == preset_name = NoneGiven \/ preset_name[1] = ""

\* `if custom_state:` a dict that is given and is not empty
HasCustomState(custom_state) ==
    custom_state # NoneGiven /\ DOMAIN custom_state[1] # {}

\* whether the call builds a preset trajectory, and so rounds cycle positions
attractor_uses_trajectory(preset_name, custom_state, mode) ==
    /\ ~NoPresetName(preset_name)
    /\ preset_name[1] \in DOMAIN MAGPHOTO_RHYTHMIC_PRESETS
    /\ mode = "sequence" \/ ~HasCustomState(custom_state)

\* trajectory is what _generate_preset_trajectory(preset_name) returns in this call
generate_attractor_prompt(preset_name, custom_state, mode, style_modifier, keyframe_count, trajectory) ==
    IF mode = "sequence"
    THEN IF NoPresetName(preset_name)
         THEN [ error |-> "preset_name required for sequence mode" ]
         ELSE IF preset_name[1] \notin DOMAIN MAGPHOTO_RHYTHMIC_PRESETS
         THEN [ error |-> "Unknown preset '" \o preset_name[1] \o "'",
                available |-> MAGPHOTO_RHYTHMIC_PRESETS_keys ]
         ELSE IF keyframe_count = 0
         THEN [ exception |-> "ZeroDivisionError" ]
         ELSE [ domain |-> "magazine_photography",
                    mode |-> "sequence",
                    preset |-> preset_name[1],
                    description |-> MAGPHOTO_RHYTHMIC_PRESETS[preset_name[1]].description,
                    keyframe_count |-> keyframe_count,
                    keyframes |-> [k \in 1..Max(keyframe_count, 0) |->
                                      keyframe(k - 1, trajectory, keyframe_count,
                                               style_modifier)] ]
    ELSE IF HasCustomState(custom_state)
    THEN LET missing == MissingParameters(custom_state[1])
         IN  IF missing # <<>>
             THEN [ error |-> "Missing parameters in custom_state: " \o Repr(missing) ]
             ELSE attractor_payload(custom_state[1], "custom", mode, style_modifier)
    ELSE IF ~NoPresetName(preset_name)
    THEN IF preset_name[1] \notin DOMAIN MAGPHOTO_RHYTHMIC_PRESETS
         THEN [ error |-> "Unknown preset '" \o preset_name[1] \o "'" ]
         ELSE LET mid == Len(trajectory) \div 4
              IN  attractor_payload(trajectory[mid + 1],
                                    "preset:" \o preset_name[1] \o ":step_" \o ToString(mid),
                                    mode, style_modifier)
    ELSE [ error |-> "Provide preset_name or custom_state" ]

\* the locals of generate_attractor_prompt when it returns: missing once the custom
\* state's keys were looked at, type_name once the nearest type was looked up
attractor_locals(preset_name, custom_state, mode, trajectory) ==
    IF mode = "sequence"
    THEN IF attractor_uses_trajectory(preset_name, custom_state, mode)
         THEN [trajectory |-> trajectory]
         ELSE EmptyDict
    ELSE IF HasCustomState(custom_state)
    THEN LET missing == MissingParameters(custom_state[1])
         IN  IF missing # <<>>
             THEN [ missing |-> missing ]
             ELSE [ missing |-> missing,
                    state |-> custom_state[1],
                    type_name |-> _find_nearest_visual_type(custom_state[1])[1] ]
    ELSE IF attractor_uses_trajectory(preset_name, custom_state, mode)
    THEN LET mid == Len(trajectory) \div 4
         IN  [ trajectory |-> trajectory,
               state |-> trajectory[mid + 1],
               type_name |-> _find_nearest_visual_type(trajectory[mid + 1])[1] ]
    ELSE EmptyDict

\* strength is in quarters; int() rounds towards zero
extract_visual_vocabulary(state, strength) ==
    LET missing == MissingParameters(state)
    IN  IF missing # <<>>
        THEN [ error |-> "Missing parameters: " \o Repr(missing),
               expected |-> MAGPHOTO_PARAMETER_NAMES ]
        ELSE LET near      == _find_nearest_visual_type(state)
                 type_data == near[3]
                 product   == Len(type_data.keywords) * strength
                 n         == Max(2, IF product >= 0 THEN product \div 4
                                     ELSE 0 - ((0 - product) \div 4))
                 keywords  == IF strength < 4
                              THEN SubSeq(type_data.keywords, 1,
                                          Min(n, Len(type_data.keywords)))
                              ELSE type_data.keywords
             IN  [ domain |-> "magazine_photography",
                   nearest_type |-> near[1],
                   distance |-> round_sqrt(near[2]),
                   keywords |-> keywords,
                   optical_properties |-> type_data.optical_properties,
                   input_state |-> state,
                   strength |-> Num(strength, 4, 0) ]

(***************************************************************************)
(* The arguments handed to the morphospace layer.                          *)
(***************************************************************************)
\* the state half-way between two vocabulary types
Midpoint(a, b) == [p \in Elements(MAGPHOTO_PARAMETER_NAMES) |-> (a[p] + b[p]) \div 2]

\* the canonical states, the coordinates of the vocabulary types, the states half-way
\* between two types, the two corners of the parameter space, and a state that
\* holds a seventh key
SixAxisStates ==
    LET TypeCoords == {MAGPHOTO_VISUAL_TYPES[t].coords : t \in DOMAIN MAGPHOTO_VISUAL_TYPES}
    IN  {MAGPHOTO_COORDS[s] : s \in DOMAIN MAGPHOTO_COORDS}
        \cup TypeCoords
        \cup {Midpoint(a, b) : a \in TypeCoords, b \in TypeCoords}
        \cup {[p \in Elements(MAGPHOTO_PARAMETER_NAMES) |-> v] : v \in {0, Scale}}
        \cup {[p \in Elements(MAGPHOTO_PARAMETER_NAMES) \cup {"film_grain"} |-> Scale \div 4]}

StateNameArgs == DOMAIN MAGPHOTO_COORDS \cup {"noir_pulp", "Editorial_Glamour", ""}

PresetNameArgs == DOMAIN MAGPHOTO_RHYTHMIC_PRESETS \cup {"slow_fade", ""}

CustomStateArgs ==
    { NoneGiven,
      Some(EmptyDict),
      Some(MAGPHOTO_COORDS.nature_sublime),
      Some(Midpoint(MAGPHOTO_VISUAL_TYPES.editorial_polished.coords,
                    MAGPHOTO_VISUAL_TYPES.vintage_analog.coords)),
      Some([color_saturation |-> 5000, detail_sharpness |-> 5000]),
      Some([color_saturation |-> 5000, detail_sharpness |-> 5000, mood_intensity |-> 5000,
            contrast_level |-> 5000, temporal_warmth |-> 5000]) }

\* (preset_name, custom_state, mode, style_modifier, keyframe_count): every preset
\* name with every keyframe count and every custom state, except that the
\* square-wave preset comes with the keyframe counts up to 7 and without a custom state
AttractorArgs ==
    LET SmoothPresetNameArgs == PresetNameArgs \ {"formality_toggle"}
        ModeArgs == {"composite", "split_view", "sequence", "mosaic"}
    IN  ({NoneGiven} \cup {Some(n) : n \in SmoothPresetNameArgs})
            \X {NoneGiven} \X {"sequence"} \X {""}
            \X ((-1)..MaxFewKeyframes \cup {7, 61, MaxKeyframes})
        \cup
        {Some("formality_toggle")}
            \X {NoneGiven} \X {"sequence"} \X {""} \X ((-1)..MaxFewKeyframes \cup {7})
        \cup
        ({NoneGiven} \cup {Some(n) : n \in SmoothPresetNameArgs})
            \X CustomStateArgs \X ModeArgs \X {""} \X {4}
        \cup
        {Some("formality_toggle")} \X {NoneGiven} \X {"composite"} \X {""} \X {4}
        \cup
        {NoneGiven, Some("mood_arc")}
            \X CustomStateArgs \X ModeArgs \X {"35mm film"} \X {4}
        \cup
        {Some("era_drift")} \X {NoneGiven} \X {"sequence"} \X {"35mm film"} \X {4}

\* the roundings of the cycle positions that can change a trajectory: only the
\* square wave turns a position rounded below a boundary into another state
TrajectoryRoundings(steps, cycles, pat) ==
    IF pat = "square" THEN RoundingsKept(steps, cycles)
    ELSE {[i \in Range(steps) |-> 0]}

PresetRoundings(preset_name) ==
    LET preset == MAGPHOTO_RHYTHMIC_PRESETS[preset_name]
    IN  TrajectoryRoundings(preset.num_cycles * preset.steps_per_cycle,
                            Whole(preset.num_cycles), preset.pattern)

(***************************************************************************)
(* The calls.                                                              *)
(***************************************************************************)
Call_interpolate_states ==
    /\ tool = "none"
    /\ pc = "start"
    /\ \E state_a \in SixAxisStates, state_b \in SixAxisStates,
             alpha \in {Num(k, AlphaSteps, 0) : k \in 0..AlphaSteps} :
          /\ args' = [state_a |-> state_a, state_b |-> state_b, alpha |-> alpha]
          /\ result' = _interpolate_states(state_a, state_b, alpha)
    /\ tool' = "_interpolate_states"
    /\ locals' = EmptyDict
    /\ UNCHANGED <<ologVars, oscVars, store>>

Call_euclidean_distance ==
    /\ tool = "none"
    /\ pc = "start"
    /\ \E a \in SixAxisStates, b \in SixAxisStates :
          /\ args' = [a |-> a, b |-> b]
          /\ result' = [ab |-> _euclidean_distance(a, b), ba |-> _euclidean_distance(b, a)]
    /\ tool' = "_euclidean_distance"
    /\ locals' = EmptyDict
    /\ UNCHANGED <<ologVars, oscVars, store>>

Call_find_nearest_visual_type ==
    /\ tool = "none"
    /\ pc = "start"
    /\ \E state \in SixAxisStates :
          /\ args' = [state |-> state]
          /\ result' = [first |-> _find_nearest_visual_type(state),
                        again |-> _find_nearest_visual_type(state)]
    /\ tool' = "_find_nearest_visual_type"
    /\ locals' = EmptyDict
    /\ UNCHANGED <<ologVars, oscVars, store>>

Call_generate_preset_trajectory ==
    /\ tool = "none"
    /\ pc = "start"
    /\ \E preset_name \in DOMAIN MAGPHOTO_RHYTHMIC_PRESETS :
          \E err \in PresetRoundings(preset_name) :
              LET l == preset_trajectory_locals(preset_name, err)
              IN  /\ args' = [preset_name |-> preset_name]
                  /\ result' = trajectory_of(l)
                  /\ locals' = l
    /\ tool' = "_generate_preset_trajectory"
    /\ UNCHANGED <<ologVars, oscVars, store>>

Call_get_aesthetic_state_coordinates ==
    /\ tool = "none"
    /\ pc = "start"
    /\ \E state_name \in StateNameArgs :
          /\ args' = [state_name |-> state_name]
          /\ result' = get_aesthetic_state_coordinates(state_name)
    /\ tool' = "get_aesthetic_state_coordinates"
    /\ locals' = EmptyDict
    /\ UNCHANGED <<ologVars, oscVars, store>>

Call_generate_rhythmic_sequence ==
    /\ tool = "none"
    /\ pc = "start"
    /\ \E preset_name \in PresetNameArgs,
          steps \in {NoneGiven} \cup {Some(n) : n \in (-1)..MaxOverrideSteps} :
          IF preset_name \in DOMAIN MAGPHOTO_RHYTHMIC_PRESETS
          THEN LET preset == MAGPHOTO_RHYTHMIC_PRESETS[preset_name]
               IN  \E err \in TrajectoryRoundings(rhythmic_total(preset, steps),
                                                  rhythmic_num_cycles(preset, steps),
                                                  preset.pattern) :
                       LET l == rhythmic_locals(preset_name, steps, err)
                       IN  /\ args' = [preset_name |-> preset_name, num_steps |-> steps]
                           /\ result' = generate_rhythmic_sequence(preset_name, l)
                           /\ locals' = l
          ELSE /\ args' = [preset_name |-> preset_name, num_steps |-> steps]
               /\ result' = generate_rhythmic_sequence(preset_name, EmptyDict)
               /\ locals' = EmptyDict
    /\ tool' = "generate_rhythmic_sequence"
    /\ UNCHANGED <<ologVars, oscVars, store>>

Call_map_magazine_photography_parameters ==
    /\ tool = "none"
    /\ pc = "start"
    /\ \E state_name \in StateNameArgs,
          intensity \in {"subtle", "moderate", "dramatic", "extreme"},
          emphasis \in {"color", "detail", "mood", "contrast", "warmth", "composition",
                        "none"} :
          /\ args' = [state_name |-> state_name, intensity |-> intensity,
                      emphasis |-> emphasis]
          /\ result' = map_magazine_photography_parameters(state_name, intensity, emphasis)
          /\ store' = [store EXCEPT !.MAGPHOTO_COORDS =
                           coords_after_map(@, state_name, intensity, emphasis)]
    /\ tool' = "map_magazine_photography_parameters"
    /\ locals' = EmptyDict
    /\ UNCHANGED <<ologVars, oscVars>>

Call_generate_attractor_prompt ==
    /\ tool = "none"
    /\ pc = "start"
    /\ \E a \in AttractorArgs :
          LET preset_name    == a[1]
              custom_state   == a[2]
              mode           == a[3]
              style_modifier == a[4]
              keyframe_count == a[5]
              uses           == attractor_uses_trajectory(preset_name, custom_state, mode)
          IN  \E err \in IF uses THEN PresetRoundings(preset_name[1]) ELSE {EmptyDict} :
                  LET trajectory == IF uses
                                    THEN _generate_preset_trajectory(preset_name[1], err)
                                    ELSE <<>>
                  IN  /\ args' = [ preset_name |-> preset_name,
                                   custom_state |-> custom_state,
                                   mode |-> mode,
                                   style_modifier |-> style_modifier,
                                   keyframe_count |-> keyframe_count ]
                      /\ result' = generate_attractor_prompt(
                                       preset_name, custom_state, mode, style_modifier,
                                       keyframe_count, trajectory)
                      /\ locals' = attractor_locals(preset_name, custom_state, mode,
                                                    trajectory)
    /\ tool' = "generate_attractor_prompt"
    /\ UNCHANGED <<ologVars, oscVars, store>>

Call_compute_aesthetic_distance ==
    /\ tool = "none"
    /\ pc = "start"
    /\ \E state_a_name \in StateNameArgs, state_b_name \in StateNameArgs :
          /\ args' = [state_a_name |-> state_a_name, state_b_name |-> state_b_name]
          /\ result' = compute_aesthetic_distance(state_a_name, state_b_name)
          /\ locals' =
                IF state_a_name \in DOMAIN MAGPHOTO_COORDS
                   /\ state_b_name \in DOMAIN MAGPHOTO_COORDS
                THEN [dist |-> _euclidean_distance(MAGPHOTO_COORDS[state_a_name],
                                                   MAGPHOTO_COORDS[state_b_name])]
                ELSE EmptyDict
    /\ tool' = "compute_aesthetic_distance"
    /\ UNCHANGED <<ologVars, oscVars, store>>

Call_extract_visual_vocabulary ==
    /\ tool = "none"
    /\ pc = "start"
    /\ \E state \in SixAxisStates \cup {c[1] : c \in CustomStateArgs \ {NoneGiven}},
          strength \in {-1, 0, 2, 3, 4, 6} :
          /\ args' = [state |-> state, strength |-> strength]
          /\ result' = extract_visual_vocabulary(state, strength)
          /\ locals' = IF MissingParameters(state) # <<>>
                       THEN [ missing |-> MissingParameters(state) ]
                       ELSE [ missing |-> <<>>,
                              type_name |-> _find_nearest_visual_type(state)[1] ]
    /\ tool' = "extract_visual_vocabulary"
    /\ UNCHANGED <<ologVars, oscVars, store>>

NextMorph ==
    \/ Call_interpolate_states
    \/ Call_euclidean_distance
    \/ Call_find_nearest_visual_type
    \/ Call_generate_preset_trajectory
    \/ Call_get_aesthetic_state_coordinates
    \/ Call_generate_rhythmic_sequence
    \/ Call_map_magazine_photography_parameters
    \/ Call_generate_attractor_prompt
    \/ Call_compute_aesthetic_distance
    \/ Call_extract_visual_vocabulary

SpecMorph == Init /\ [][NextMorph]_vars

(***************************************************************************)
(* Calls one after the other: the caller takes what a call returned and    *)
(* lets go of its records; what the module keeps is the three catalogs.    *)
(***************************************************************************)
Return ==
    /\ pc # "start" \/ tool # "none"
    /\ magazine' = None
    /\ photography' = None
    /\ mag_profile' = None
    /\ photo_profile' = None
    /\ scores' = None
    /\ pre' = None
    /\ pc' = "start"
    /\ tool' = "none"
    /\ args' = EmptyDict
    /\ result' = EmptyDict
    /\ locals' = EmptyDict
    /\ store' = [store EXCEPT !.magazine = None, !.photography = None]
    /\ UNCHANGED oscVars

NextCalls ==
    \/ Next
    \/ NextMorph
    \/ Return

SpecCalls == Init /\ [][NextCalls]_vars

(***************************************************************************)
(* The claims.  What a claim calls a dimension's source text is read here  *)
(* from the record that was handed in, not from the returned profile.      *)
(***************************************************************************)
MagazineDone == pc \in {"magazine_olog", "compatibility"}
PhotographyDone == pc \in {"photography_olog", "compatibility"}
Scored == pc = "compatibility"

VisualOf(m) == Get(m, "visual_treatment", EmptyDict)
ColorText == Get(VisualOf(magazine), "color_palette", "")
LightingText == Get(VisualOf(magazine), "lighting", "")
ContrastText == Get(VisualOf(magazine), "contrast", "")
TextureText == Get(VisualOf(magazine), "texture", "")
CompositionText == Get(Get(photography, "aesthetic", EmptyDict), "composition", "")
FocalText == Get(Get(photography, "technical", EmptyDict), "focal_length", "")
UsesText == Join(Get(Get(photography, "context", EmptyDict), "typical_uses", <<>>))
ApertureText ==
    Get(Get(photography, "technical", EmptyDict), "typical_aperture_range", "")
EraText == Get(Get(magazine, "era", EmptyDict), "label", "")
NameText == Get(photography, "name", "")

ContainsAny(text, keywords) == \E k \in keywords : Contains(text, k)

\* C1: the scorer returns four integers in [1,10] and one of the three
\* temporal-alignment labels, whatever the categories, the era and the style name.
C1_ScoresInRange ==
    Scored =>
        /\ scores.overall_harmony \in 1..10
        /\ scores.technical_score \in 1..10
        /\ scores.aesthetic_score \in 1..10
        /\ scores.creative_tension \in 1..10
        /\ scores.temporal_alignment \in TemporalAlignment

C1_Witness ==
    /\ Scored
    /\ scores.creative_tension = 8
    /\ scores.aesthetic_score = 7
    /\ scores.technical_score = 6
    /\ scores.overall_harmony = 5
    /\ scores.temporal_alignment = "creative_anachronism"

\* C2: the returned overall_harmony is the clamp to [1,10] of the floored mean of the
\* pre-clamp technical and aesthetic scores, less one when the pre-clamp tension
\* exceeds 7.
C2_HarmonyLaw ==
    Scored =>
        LET raw == ((pre.technical_score + pre.aesthetic_score) \div 2)
                      - (IF pre.tension > 7 THEN 1 ELSE 0)
        IN  scores.overall_harmony = (IF raw < 1 THEN 1 ELSE IF raw > 10 THEN 10 ELSE raw)

C2_Witness ==
    /\ Scored
    /\ pre.tension = 8
    /\ pre.technical_score = 5
    /\ pre.aesthetic_score = 6
    /\ scores.overall_harmony = 4

\* C3: both extractors return a profile whose every dimension is a member of its
\* enumerated set, for every record, the ones with missing groups or fields included.
C3_ProfilesInTaxonomy ==
    /\ MagazineDone =>
          /\ mag_profile.color_category \in ColorPaletteCategory
          /\ mag_profile.lighting_approach \in LightingApproach
          /\ mag_profile.contrast_profile \in ContrastProfile
          /\ mag_profile.texture_emphasis \in TextureEmphasis
    /\ PhotographyDone =>
          /\ photo_profile.composition_strategy \in CompositionStrategy
          /\ photo_profile.focal_length_category \in FocalLengthCategory
          /\ photo_profile.subject_context \in SubjectContext
          /\ photo_profile.depth_of_field \in DepthOfField

C3_Witness ==
    /\ pc = "compatibility"
    /\ DOMAIN magazine = {}
    /\ "technical" \notin DOMAIN photography
    /\ "aesthetic" \in DOMAIN photography
    /\ mag_profile.color_category \in ColorPaletteCategory
    /\ photo_profile.depth_of_field \in DepthOfField

\* C4: the color category is that of the first group, in the order muted, vibrant,
\* cool, warm, monochrome, that has a keyword in the lower-cased color_palette text,
\* and mixed when no group has one.
ColorGroups ==
    << [keywords |-> {"muted", "desaturated", "pastel"}, category |-> "muted"],
       [keywords |-> {"vibrant", "saturated", "vivid"}, category |-> "vibrant"],
       [keywords |-> {"cool", "blue", "cyan"}, category |-> "cool"],
       [keywords |-> {"warm", "orange", "yellow"}, category |-> "warm"],
       [keywords |-> {"black and white", "b&w", "monochrome"},
        category |-> "monochromatic"] >>

FirstMatch(groups, text, fallback) ==
    LET hits == {i \in 1..Len(groups) : ContainsAny(text, groups[i].keywords)}
    IN  IF hits = {} THEN fallback
        ELSE groups[CHOOSE i \in hits : \A j \in hits : i <= j].category

C4_ColorFirstMatch ==
    MagazineDone =>
        mag_profile.color_category = FirstMatch(ColorGroups, Lower(ColorText), "mixed")

C4_Witness ==
    /\ MagazineDone
    /\ ColorText = "VIVID desaturated"
    /\ mag_profile.color_category = "muted"

\* C5: a dimension whose lower-cased source text holds none of its keywords (an empty
\* or missing text among them) gets the fixed fallback category.
LightingKeywords ==
    {"soft", "diffused", "hard", "dramatic", "sharp", "natural", "golden hour", "window",
     "clinical", "neutral", "even"}
ContrastKeywords ==
    {"extreme", "crushed", "blown", "high", "low", "lifted", "compressed"}
TextureKeywords ==
    {"sharp", "crisp", "clinical", "soft", "dreamy", "ethereal", "smooth", "glossy",
     "polished", "synthetic", "materials", "manufactured"}
CompositionKeywords ==
    {"grid", "geometric", "symmetric", "asymmetric", "balanced", "crop", "tight", "close",
     "environment", "context", "minimal", "sparse", "negative space"}
FocalKeywords ==
    {"ultra", "14", "16", "wide", "24", "35", "50", "35-50", "standard", "85", "70",
     "50-85", "medium telephoto", "telephoto", "100", "200"}
SubjectKeywords ==
    {"portrait", "people", "fashion", "product", "still life", "architecture",
     "landscape", "place", "candid", "moment", "event"}
ApertureKeywords == {"f/1", "shallow", "f/5.6", "f/8", "deep"}
ColorKeywords == UNION {ColorGroups[i].keywords : i \in 1..Len(ColorGroups)}

C5_Fallbacks ==
    /\ MagazineDone =>
          /\ ~ContainsAny(Lower(ColorText), ColorKeywords)
                => mag_profile.color_category = "mixed"
          /\ ~ContainsAny(Lower(LightingText), LightingKeywords)
                => mag_profile.lighting_approach = "dramatic"
          /\ ~ContainsAny(Lower(ContrastText), ContrastKeywords)
                => mag_profile.contrast_profile = "medium"
          /\ ~ContainsAny(Lower(TextureText), TextureKeywords)
                => mag_profile.texture_emphasis = "organic"
    /\ PhotographyDone =>
          /\ ~ContainsAny(Lower(CompositionText), CompositionKeywords)
                => photo_profile.composition_strategy = "asymmetrical"
          /\ ~ContainsAny(Lower(FocalText), FocalKeywords)
                => photo_profile.focal_length_category = "standard"
          /\ ~ContainsAny(Lower(UsesText), SubjectKeywords)
                => photo_profile.subject_context = "abstract"
          /\ ~ContainsAny(Lower(ApertureText), ApertureKeywords)
                => photo_profile.depth_of_field = "moderate"

C5_Witness ==
    /\ Scored
    /\ "visual_treatment" \notin DOMAIN magazine
    /\ DOMAIN photography = {}
    /\ mag_profile.color_category = "mixed"
    /\ mag_profile.lighting_approach = "dramatic"
    /\ mag_profile.contrast_profile = "medium"
    /\ mag_profile.texture_emphasis = "organic"
    /\ photo_profile.composition_strategy = "asymmetrical"
    /\ photo_profile.focal_length_category = "standard"
    /\ photo_profile.subject_context = "abstract"
    /\ photo_profile.depth_of_field = "moderate"

\* C6: the temporal alignment follows the ordered era rules (1960/1970 first, then
\* contemporary/2000/2010, else creative anachronism), the era text tested as given
\* and the style name lower-cased, and is never temporal_clash.
C6_Expected(era, name) ==
    IF ContainsAny(era, {"1960", "1970"})
    THEN IF ContainsAny(Lower(name), {"documentary", "street", "studio", "fashion"})
         THEN "era_matched" ELSE "creative_anachronism"
    ELSE IF ContainsAny(era, {"contemporary", "2000", "2010"})
    THEN IF ContainsAny(Lower(name), {"cinematic", "drone"})
         THEN "era_matched" ELSE "creative_anachronism"
    ELSE "creative_anachronism"

C6_TemporalRules ==
    Scored =>
        /\ scores.temporal_alignment = C6_Expected(EraText, NameText)
        /\ scores.temporal_alignment # "temporal_clash"

C6_Witness ==
    /\ Scored
    /\ EraText = "1960s-2010s"
    /\ NameText = "Cinematic"
    /\ scores.temporal_alignment = "creative_anachronism"

\* C7: the pre-clamp tension is 5, plus 2 for a creative anachronism, plus 1 for
\* extreme contrast with a minimalist composition; the harmony penalty is applied
\* exactly when the tension is 8, which is exactly when all three hold, and never
\* for an era-matched pair.
C7_Penalised ==
    pre.harmony = ((pre.technical_score + pre.aesthetic_score) \div 2) - 1

C7_Unpenalised ==
    pre.harmony = (pre.technical_score + pre.aesthetic_score) \div 2

C7_Tension ==
    Scored =>
        LET anachronism == scores.temporal_alignment = "creative_anachronism"
            stark       == /\ mag_profile.contrast_profile = "extreme"
                           /\ photo_profile.composition_strategy = "minimalist"
        IN  /\ pre.tension = 5 + (IF anachronism THEN 2 ELSE 0) + (IF stark THEN 1 ELSE 0)
            /\ C7_Penalised <=> pre.tension = 8
            /\ ~C7_Penalised => C7_Unpenalised
            /\ pre.tension = 8 <=> (anachronism /\ stark)
            /\ scores.temporal_alignment = "era_matched" => C7_Unpenalised

C7_Witness ==
    /\ Scored
    /\ pre.tension = 8
    /\ C7_Penalised
    /\ mag_profile.contrast_profile = "extreme"
    /\ photo_profile.composition_strategy = "minimalist"

\* C8 (as amended): "muted pastel tones" and "soft diffused window light" classify to
\* muted / soft_diffused; a composition text containing "environmental context"
\* classifies to environmental when its lower-cased text has no keyword of an earlier
\* composition branch (grid, geometric, symmetric, asymmetric, balanced, crop, tight,
\* close); and muted, soft_diffused, environmental with a focal length neither wide
\* nor medium_telephoto scores aesthetic 6, technical 5, harmony 5.
C8_Scenario ==
    (ColorText = "muted pastel tones" /\ LightingText = "soft diffused window light")
        => /\ mag_profile.color_category = "muted"
           /\ mag_profile.lighting_approach = "soft_diffused"

C8_Scores ==
    ( /\ mag_profile.color_category = "muted"
      /\ mag_profile.lighting_approach = "soft_diffused"
      /\ photo_profile.composition_strategy = "environmental"
      /\ photo_profile.focal_length_category \notin {"wide", "medium_telephoto"} )
        => /\ scores.aesthetic_score = 6
           /\ scores.technical_score = 5
           /\ scores.overall_harmony = 5

EarlierCompositionKeywords ==
    {"grid", "geometric", "symmetric", "asymmetric", "balanced", "crop", "tight", "close"}

C8_Amended ==
    Scored =>
        /\ C8_Scenario
        /\ ( /\ Contains(CompositionText, "environmental context")
             /\ ~ContainsAny(Lower(CompositionText), EarlierCompositionKeywords) )
              => photo_profile.composition_strategy = "environmental"
        /\ C8_Scores

\* C8 as stated: every composition text containing "environmental context" classifies
\* to environmental.
C8_Original ==
    Scored =>
        /\ C8_Scenario
        /\ Contains(CompositionText, "environmental context")
              => photo_profile.composition_strategy = "environmental"
        /\ C8_Scores

C8_Witness ==
    /\ Scored
    /\ ColorText = "muted pastel tones"
    /\ LightingText = "soft diffused window light"
    /\ CompositionText = "environmental context"
    /\ photo_profile.composition_strategy = "environmental"
    /\ photo_profile.focal_length_category = "standard"
    /\ scores.aesthetic_score = 6
    /\ scores.technical_score = 5
    /\ scores.overall_harmony = 5

\* C9: for num_steps >= 1 and a valid pattern the oscillator returns exactly num_steps
\* values, all in [0,1] (square: 0.0 or 1.0 only), the first being 0.5 for
\* sinusoidal and 0.0 for triangular and square.
IsZero(x) == x.n = 0 /\ x.e = 0
IsOne(x) == x.n = x.d /\ x.e = 0
IsHalf(x) == 2 * x.n = x.d /\ x.e = 0
InUnitInterval(x) ==
    /\ x.d > 0
    /\ 0 <= x.n
    /\ x.n <= x.d
    /\ x.n = 0 => x.e >= 0
    /\ x.n = x.d => x.e <= 0

C9_Oscillation ==
    (osc.kind = "list" /\ num_steps >= 1) =>
        /\ Len(osc.values) = num_steps
        /\ \A k \in 1..Len(osc.values) : InUnitInterval(osc.values[k])
        /\ pattern = "square" =>
              \A k \in 1..Len(osc.values) : IsZero(osc.values[k]) \/ IsOne(osc.values[k])
        /\ pattern = "sinusoidal" => IsHalf(osc.values[1])
        /\ pattern \in {"triangular", "square"} => IsZero(osc.values[1])

C9_Witness ==
    /\ osc.kind = "list"
    /\ pattern = "triangular"
    /\ num_steps = 4
    /\ num_cycles = [cn |-> 2, cd |-> 1]
    /\ IsZero(osc.values[1])
    /\ \E k \in 2..4 : osc.values[k].e # 0

\* C10: the oscillator raises the invalid-pattern error for every pattern other than
\* the three valid ones, whatever num_steps is, and returns a list for the three.
C10_InvalidPattern ==
    osc.kind # "none" =>
        /\ pattern \notin {"sinusoidal", "triangular", "square"} => osc.kind = "ValueError"
        /\ pattern \in {"sinusoidal", "triangular", "square"} => osc.kind = "list"

C10_Witness ==
    /\ osc.kind = "ValueError"
    /\ num_steps = 0
    /\ pattern = "sawtooth"

(***************************************************************************)
(* The claims about the morphospace layer.                                 *)
(***************************************************************************)
SixAxes ==
    { "color_saturation", "detail_sharpness", "mood_intensity", "contrast_level",
      "temporal_warmth", "compositional_formality" }

\* C11: _interpolate_states(a, b, 0) equals a on every axis, _interpolate_states(a, b, 1)
\* equals b on every axis, and the result has exactly the six parameter axes.
C11_InterpolationBoundary ==
    tool = "_interpolate_states" =>
        /\ DOMAIN result = SixAxes
        /\ IsZero(args.alpha) => \A p \in SixAxes : result[p] = args.state_a[p]
        /\ IsOne(args.alpha) => \A p \in SixAxes : result[p] = args.state_b[p]

C11_Witness ==
    /\ tool = "_interpolate_states"
    /\ IsOne(args.alpha)
    /\ DOMAIN args.state_a # SixAxes
    /\ \E p \in SixAxes : args.state_a[p] # args.state_b[p]
    /\ \A p \in SixAxes : result[p] = args.state_b[p]

\* C12: the distance from a to b is the distance from b to a, and the distance from a
\* state to itself is 0.
C12_DistanceSymmetry ==
    tool = "_euclidean_distance" =>
        /\ result.ab = result.ba
        /\ (\A p \in SixAxes : args.a[p] = args.b[p]) => result.ab = 0

C12_Witness ==
    /\ tool = "_euclidean_distance"
    /\ args.a.color_saturation > args.b.color_saturation
    /\ result.ab > 0
    /\ result.ab = result.ba

\* the position of a vocabulary type in the catalog's iteration order
TypeIndex(name) == CHOOSE k \in 1..Len(MAGPHOTO_VISUAL_TYPES_keys) :
                       MAGPHOTO_VISUAL_TYPES_keys[k] = name

\* the square of the distance from a state to a vocabulary type, axis by axis
SquaredDistanceTo(state, name) ==
    LET c == MAGPHOTO_VISUAL_TYPES[name].coords
    IN  (state.color_saturation - c.color_saturation)
            * (state.color_saturation - c.color_saturation)
        + (state.detail_sharpness - c.detail_sharpness)
            * (state.detail_sharpness - c.detail_sharpness)
        + (state.mood_intensity - c.mood_intensity)
            * (state.mood_intensity - c.mood_intensity)
        + (state.contrast_level - c.contrast_level)
            * (state.contrast_level - c.contrast_level)
        + (state.temporal_warmth - c.temporal_warmth)
            * (state.temporal_warmth - c.temporal_warmth)
        + (state.compositional_formality - c.compositional_formality)
            * (state.compositional_formality - c.compositional_formality)

\* name is the first type, in catalog order, among those nearest to the state
FirstNearest(state, name) ==
    /\ name \in DOMAIN MAGPHOTO_VISUAL_TYPES
    /\ \A t \in DOMAIN MAGPHOTO_VISUAL_TYPES :
          /\ SquaredDistanceTo(state, name) <= SquaredDistanceTo(state, t)
          /\ TypeIndex(t) < TypeIndex(name)
                => SquaredDistanceTo(state, name) < SquaredDistanceTo(state, t)

\* C13: _find_nearest_visual_type returns a type at minimal distance from the state,
\* the first in catalog order when several tie, with that distance; a second call
\* on the same state returns the same type and distance.
C13_NearestFirst ==
    tool = "_find_nearest_visual_type" =>
        /\ FirstNearest(args.state, result.first[1])
        /\ result.first[2] = SquaredDistanceTo(args.state, result.first[1])
        /\ result.first[3] = MAGPHOTO_VISUAL_TYPES[result.first[1]]
        /\ result.again = result.first

C13_Witness ==
    /\ tool = "_find_nearest_visual_type"
    /\ \E t \in DOMAIN MAGPHOTO_VISUAL_TYPES :
          /\ t # result.first[1]
          /\ SquaredDistanceTo(args.state, t) = result.first[2]
          /\ TypeIndex(result.first[1]) < TypeIndex(t)

\* a call of one of the two trajectory builders on a preset, without a step override
DefaultTrajectoryCall ==
    \/ tool = "_generate_preset_trajectory"
    \/ /\ tool = "generate_rhythmic_sequence"
       /\ args.preset_name \in DOMAIN MAGPHOTO_RHYTHMIC_PRESETS
       /\ args.num_steps = NoneGiven

\* the trajectory such a call returned
ReturnedTrajectory ==
    IF tool = "_generate_preset_trajectory" THEN result ELSE result.trajectory

\* the values the oscillator gives for a preset run over its own length
PresetOscillation(preset) ==
    _generate_oscillation(preset.num_cycles * preset.steps_per_cycle,
                          Whole(preset.num_cycles), preset.pattern,
                          [i \in Range(preset.num_cycles * preset.steps_per_cycle) |-> 0]).values

\* C14: without a step override the trajectory of every preset, from
\* generate_rhythmic_sequence and from _generate_preset_trajectory, has exactly
\* num_cycles * steps_per_cycle states, the reported total_steps equals that length,
\* and element i is the interpolation between the preset's state_a and state_b at
\* the i-th oscillator value.
C14_DefaultTrajectory ==
    DefaultTrajectoryCall =>
        LET preset == MAGPHOTO_RHYTHMIC_PRESETS[args.preset_name]
            a      == MAGPHOTO_COORDS[preset.state_a]
            b      == MAGPHOTO_COORDS[preset.state_b]
            n      == preset.num_cycles * preset.steps_per_cycle
        IN  /\ Len(ReturnedTrajectory) = n
            /\ tool = "generate_rhythmic_sequence" => result.total_steps = n
            /\ Len(locals.alphas) = n
            /\ preset.pattern # "square" => locals.alphas = PresetOscillation(preset)
            /\ preset.pattern = "square" =>
                  \A k \in 1..n : IsZero(locals.alphas[k]) \/ IsOne(locals.alphas[k])
            /\ \A k \in 1..n :
                  /\ DOMAIN ReturnedTrajectory[k] = SixAxes
                  /\ \A p \in SixAxes :
                        ReturnedTrajectory[k][p] = lerp(a[p], b[p], locals.alphas[k])

C14_Witness ==
    /\ tool = "generate_rhythmic_sequence"
    /\ args.preset_name = "mood_arc"
    /\ args.num_steps = NoneGiven
    /\ result.total_steps = 60
    /\ Len(result.trajectory) = 60
    /\ result.trajectory[1] = MAGPHOTO_COORDS.minimalist_modern
    /\ result.trajectory[16] = MAGPHOTO_COORDS.nature_sublime
    /\ result.trajectory[9] \notin {MAGPHOTO_COORDS.minimalist_modern,
                                    MAGPHOTO_COORDS.nature_sublime}

\* a call of generate_rhythmic_sequence on a preset with a step override
OverrideCall ==
    /\ tool = "generate_rhythmic_sequence"
    /\ args.preset_name \in DOMAIN MAGPHOTO_RHYTHMIC_PRESETS
    /\ args.num_steps # NoneGiven

\* C15: whenever the caller supplies a num_steps override to generate_rhythmic_sequence
\* (any integer value, including 0), the returned trajectory has exactly num_steps
\* states, total_steps equals num_steps, and the oscillator runs with
\* num_cycles = num_steps / steps_per_cycle.  Stated for the overrides that can be
\* a number of states, 0 and above.
C15_OverrideReplacesTotal ==
    OverrideCall /\ args.num_steps[1] >= 0 =>
        /\ Len(result.trajectory) = args.num_steps[1]
        /\ result.total_steps = args.num_steps[1]
        /\ locals.num_cycles =
              [ cn |-> args.num_steps[1],
                cd |-> MAGPHOTO_RHYTHMIC_PRESETS[args.preset_name].steps_per_cycle ]

\* the override 0 is taken as no override for the length, and as an override for
\* the number of cycles: a full-length trajectory that never leaves state_a
C15_ZeroOverride ==
    /\ OverrideCall
    /\ args.preset_name = "formality_toggle"
    /\ args.num_steps = Some(0)
    /\ result.total_steps = 60
    /\ Len(result.trajectory) = 60
    /\ locals.num_cycles = [cn |-> 0, cd |-> 12]
    /\ \A k \in 1..60 : result.trajectory[k] = MAGPHOTO_COORDS.street_candid

\* the state an ideal square wave of period s holds at step i
SquareWaveState(preset, i) ==
    IF 2 * (i % preset.steps_per_cycle) < preset.steps_per_cycle
    THEN MAGPHOTO_COORDS[preset.state_a]
    ELSE MAGPHOTO_COORDS[preset.state_b]

\* C16: for a square-pattern preset with integer num_cycles c and steps_per_cycle s,
\* step i of the trajectory equals state_a when 2 * (i mod s) < s and equals state_b
\* otherwise.
C16_SquareTrajectory ==
    DefaultTrajectoryCall
    /\ MAGPHOTO_RHYTHMIC_PRESETS[args.preset_name].pattern = "square" =>
        LET preset == MAGPHOTO_RHYTHMIC_PRESETS[args.preset_name]
        IN  \A i \in Range(preset.num_cycles * preset.steps_per_cycle) :
                ReturnedTrajectory[i + 1] = SquareWaveState(preset, i)

\* the trajectory of formality_toggle as the division and the product of
\* t = i / num_steps * num_cycles round: step 6 stays on state_a, and steps 12, 24
\* and 48, which open a cycle, are on state_b
C16_RoundedBoundaries ==
    /\ tool = "_generate_preset_trajectory"
    /\ args.preset_name = "formality_toggle"
    /\ Len(result) = 60
    /\ \A i \in Range(60) :
          result[i + 1] =
              IF i = 6 THEN MAGPHOTO_COORDS.street_candid
              ELSE IF i \in {12, 24, 48} THEN MAGPHOTO_COORDS.editorial_glamour
              ELSE SquareWaveState(MAGPHOTO_RHYTHMIC_PRESETS.formality_toggle, i)

\* a call of generate_attractor_prompt in sequence mode on a preset, with at least
\* one keyframe
SequenceCall ==
    /\ tool = "generate_attractor_prompt"
    /\ args.mode = "sequence"
    /\ args.preset_name # NoneGiven
    /\ args.preset_name[1] \in DOMAIN MAGPHOTO_RHYTHMIC_PRESETS
    /\ args.keyframe_count >= 1

\* the preset's trajectory length
PresetTotal(name) ==
    MAGPHOTO_RHYTHMIC_PRESETS[name].num_cycles * MAGPHOTO_RHYTHMIC_PRESETS[name].steps_per_cycle

\* the keyframes of a sequence call are taken at the indices Index(k, total, count),
\* and each one's nearest_type is the match of the trajectory state at its index
KeyframesAt(Index(_, _, _)) ==
    LET total == PresetTotal(args.preset_name[1])
    IN  /\ Len(locals.trajectory) = total
        /\ Len(result.keyframes) = args.keyframe_count
        /\ \A k \in 0..(args.keyframe_count - 1) :
              LET kf == result.keyframes[k + 1]
              IN  /\ kf.step = Index(k, total, args.keyframe_count)
                  /\ FirstNearest(locals.trajectory[kf.step + 1], kf.nearest_type)

IndexAsStated(k, total, count) ==
    IF k * (total \div count) < total - 1 THEN k * (total \div count) ELSE total - 1

IndexWithUnitFloor(k, total, count) ==
    LET size == IF total \div count < 1 THEN 1 ELSE total \div count
    IN  IF k * size < total - 1 THEN k * size ELSE total - 1

\* C17 as stated: in sequence mode, for every preset and every keyframe_count >= 1,
\* including keyframe_count > total, the k-th keyframe is taken at trajectory index
\* min(k * floor(total / keyframe_count), total - 1), and its nearest_type is the
\* nearest-neighbour match of the state at that index.
C17_Original ==
    SequenceCall => KeyframesAt(IndexAsStated)

\* C17, amended: the k-th keyframe is taken at trajectory index
\* min(k * max(1, floor(total / keyframe_count)), total - 1), and its nearest_type is
\* the nearest-neighbour match of the state at that index.
C17_KeyframeIndex ==
    SequenceCall => KeyframesAt(IndexWithUnitFloor)

\* more keyframes than states: the keyframes walk the trajectory one step at a time
\* and the last ones stay on its last state
C17_Witness ==
    /\ SequenceCall
    /\ args.preset_name[1] = "era_drift"
    /\ args.keyframe_count = MaxKeyframes
    /\ result.keyframes[1].step = 0
    /\ result.keyframes[2].step = 1
    /\ result.keyframes[72].step = 71
    /\ result.keyframes[MaxKeyframes].step = 71
    /\ result.keyframes[19].nearest_type # result.keyframes[1].nearest_type

\* the intensity factors, in tenths
IntensityTenths == [subtle |-> 6, moderate |-> 10, dramatic |-> 14]

\* the axis each emphasis names
EmphasisAxis ==
    [ color |-> "color_saturation", detail |-> "detail_sharpness",
      mood |-> "mood_intensity", contrast |-> "contrast_level",
      warmth |-> "temporal_warmth", composition |-> "compositional_formality" ]

\* base * factor (* 1.2 on the emphasis axis) clamped to [0, 1], in units of
\* 1/(100 * Scale): base is in units of 1/Scale, the factors in tenths
ClampedProduct(base, tenths, emphasised) ==
    LET raw == base * tenths * (IF emphasised THEN 12 ELSE 10)
    IN  IF raw < 0 THEN 0 ELSE IF raw > 100 * Scale THEN 100 * Scale ELSE raw

\* v, in units of 1/Scale, is x, in units of 1/(100 * Scale), rounded to 4 decimals
IsRoundedTo4(v, x) ==
    /\ 100 * v - x <= 50
    /\ x - 100 * v <= 50

\* C18: for every canonical state, every intensity of subtle (0.6), moderate (1.0) and
\* dramatic (1.4) and every emphasis axis, map_magazine_photography_parameters returns
\* clamp(base * factor, 0, 1) for each non-emphasis axis and
\* clamp(base * factor * 1.2, 0, 1) for the emphasis axis, rounded to 4 decimals, and
\* every returned parameter lies in [0, 1].
C18_ScaledParameters ==
    /\ tool = "map_magazine_photography_parameters"
    /\ args.state_name \in DOMAIN MAGPHOTO_COORDS
    /\ args.intensity \in DOMAIN IntensityTenths
    /\ args.emphasis \in DOMAIN EmphasisAxis
    => /\ DOMAIN result.parameters = SixAxes
       /\ \A p \in SixAxes :
             /\ IsRoundedTo4(result.parameters[p],
                             ClampedProduct(MAGPHOTO_COORDS[args.state_name][p],
                                            IntensityTenths[args.intensity],
                                            p = EmphasisAxis[args.emphasis]))
             /\ result.parameters[p] >= 0
             /\ result.parameters[p] <= Scale

\* editorial_glamour at dramatic intensity with the colour emphasis: 0.85 * 1.4 * 1.2
\* is clamped to 1, and 0.85 * 1.4 on the formality axis is clamped as well, while
\* temporal_warmth, 0.40 * 1.4, is not
C18_Witness ==
    /\ tool = "map_magazine_photography_parameters"
    /\ args.state_name = "editorial_glamour"
    /\ args.intensity = "dramatic"
    /\ args.emphasis = "color"
    /\ result.parameters.color_saturation = Scale
    /\ result.parameters.temporal_warmth = 5600
    /\ result.parameters.mood_intensity = 9800

\* the square of the distance between two canonical states, axis by axis
SquaredDistanceBetween(a_name, b_name) ==
    LET a == MAGPHOTO_COORDS[a_name]
        b == MAGPHOTO_COORDS[b_name]
    IN  (a.color_saturation - b.color_saturation)
            * (a.color_saturation - b.color_saturation)
        + (a.detail_sharpness - b.detail_sharpness)
            * (a.detail_sharpness - b.detail_sharpness)
        + (a.mood_intensity - b.mood_intensity)
            * (a.mood_intensity - b.mood_intensity)
        + (a.contrast_level - b.contrast_level)
            * (a.contrast_level - b.contrast_level)
        + (a.temporal_warmth - b.temporal_warmth)
            * (a.temporal_warmth - b.temporal_warmth)
        + (a.compositional_formality - b.compositional_formality)
            * (a.compositional_formality - b.compositional_formality)

\* d < 0.4 and d < 0.7 on the square of d, in units of 1/Scale^2
Below04(sq) == sq < 16 * ((Scale * Scale) \div 100)
Below07(sq) == sq < 49 * ((Scale * Scale) \div 100)

\* C19: for every pair of canonical state names compute_aesthetic_distance labels the
\* transition smooth exactly when the Euclidean distance d < 0.4, moderate exactly
\* when 0.4 <= d < 0.7 and dramatic exactly when d >= 0.7; for
\* (editorial_glamour, minimalist_modern) the label is dramatic.
C19_TransitionLabel ==
    /\ tool = "compute_aesthetic_distance"
    /\ args.state_a_name \in DOMAIN MAGPHOTO_COORDS
    /\ args.state_b_name \in DOMAIN MAGPHOTO_COORDS
    => LET sq    == SquaredDistanceBetween(args.state_a_name, args.state_b_name)
           label == result.transition_characterization
       IN  /\ locals.dist = sq
           /\ label \in {"smooth", "moderate", "dramatic"}
           /\ label = "smooth" <=> Below04(sq)
           /\ label = "moderate" <=> ~Below04(sq) /\ Below07(sq)
           /\ label = "dramatic" <=> ~Below07(sq)
           /\ args.state_a_name = "editorial_glamour"
              /\ args.state_b_name = "minimalist_modern" => label = "dramatic"

C19_Witness ==
    /\ tool = "compute_aesthetic_distance"
    /\ args.state_a_name = "editorial_glamour"
    /\ args.state_b_name = "minimalist_modern"
    /\ result.transition_characterization = "dramatic"
    /\ result.euclidean_distance = 9206
    /\ ~Below07(locals.dist)

\* the unknown identifier a call was given, as a set: empty when every name is known.
\* compute_aesthetic_distance looks at its first name first; generate_attractor_prompt
\* takes the empty string as no preset name and reads no preset name, outside
\* sequence mode, when a custom state is given.
UnknownIdentifier ==
    IF tool \in {"get_aesthetic_state_coordinates", "map_magazine_photography_parameters"}
    THEN {args.state_name} \ DOMAIN MAGPHOTO_COORDS
    ELSE IF tool = "compute_aesthetic_distance"
    THEN IF args.state_a_name \notin DOMAIN MAGPHOTO_COORDS
         THEN {args.state_a_name}
         ELSE {args.state_b_name} \ DOMAIN MAGPHOTO_COORDS
    ELSE IF tool = "generate_rhythmic_sequence"
    THEN {args.preset_name} \ DOMAIN MAGPHOTO_RHYTHMIC_PRESETS
    ELSE IF tool = "generate_attractor_prompt"
    THEN IF args.preset_name = NoneGiven
         THEN {}
         ELSE IF args.mode # "sequence"
                 /\ args.custom_state # NoneGiven
                 /\ DOMAIN args.custom_state[1] # {}
         THEN {}
         ELSE {args.preset_name[1]} \ (DOMAIN MAGPHOTO_RHYTHMIC_PRESETS \cup {""})
    ELSE {}

\* the valid identifiers of the catalog the call looks its name up in
ValidIdentifiers ==
    IF tool \in {"generate_rhythmic_sequence", "generate_attractor_prompt"}
    THEN MAGPHOTO_RHYTHMIC_PRESETS_keys
    ELSE MAGPHOTO_COORDS_keys

\* some list field of the result is the list of the valid identifiers
CarriesValidIdentifiers ==
    \E f \in DOMAIN result \cap {"available", "available_states", "available_presets"} :
        result[f] = ValidIdentifiers

\* C20: every morphospace tool that is given an unknown canonical state name or an
\* unknown preset name (get_aesthetic_state_coordinates,
\* map_magazine_photography_parameters, compute_aesthetic_distance,
\* generate_rhythmic_sequence, and generate_attractor_prompt in every mode) returns a
\* record with an error field that names the offending identifier and carries the
\* list of all valid identifiers.
C20_UnknownIdentifier ==
    \A name \in UnknownIdentifier :
        /\ "error" \in DOMAIN result
        /\ Contains(result.error, name)
        /\ CarriesValidIdentifiers

\* outside sequence mode an unknown preset name is reported without the list
C20_NoListInComposite ==
    /\ tool = "generate_attractor_prompt"
    /\ args.preset_name = Some("slow_fade")
    /\ args.custom_state = NoneGiven
    /\ args.mode = "composite"
    /\ result = [error |-> "Unknown preset 'slow_fade'"]

\* the custom state of a call of extract_visual_vocabulary, or of
\* generate_attractor_prompt in composite or split_view mode, as a set: empty when
\* the call has none
GivenCustomState ==
    IF tool = "extract_visual_vocabulary" THEN {args.state}
    ELSE IF tool = "generate_attractor_prompt"
            /\ args.mode \in {"composite", "split_view"}
            /\ args.custom_state # NoneGiven
    THEN {args.custom_state[1]}
    ELSE {}

\* the result is an error record whose text quotes the axes the state lacks and no
\* other axis, and the call did not look up the nearest type
ReportsMissingAxes(state) ==
    /\ "error" \in DOMAIN result
    /\ \A p \in SixAxes :
          Contains(result.error, "'" \o p \o "'") <=> p \notin DOMAIN state
    /\ "nearest_type" \notin DOMAIN result
    /\ "type_name" \notin DOMAIN locals

\* C21: whenever a custom state that lacks one or more of the six required axes
\* (including the empty mapping, and whether or not a preset_name is also given) is
\* passed to extract_visual_vocabulary or to generate_attractor_prompt in composite
\* or split_view mode, the call returns an error record naming exactly the missing
\* axis keys and performs no nearest-neighbour match.
C21_MissingAxes ==
    \A state \in GivenCustomState :
        ~(SixAxes \subseteq DOMAIN state) => ReportsMissingAxes(state)

\* the empty mapping given with a preset: the preset's state is matched and no
\* error is returned
C21_EmptyMappingIgnored ==
    /\ tool = "generate_attractor_prompt"
    /\ args.mode = "composite"
    /\ args.custom_state = Some(EmptyDict)
    /\ args.preset_name = Some("mood_arc")
    /\ "error" \notin DOMAIN result
    /\ result.source = "preset:mood_arc:step_15"
    /\ result.nearest_type = locals.type_name

\* the tools of the preset and trajectory layer
LayerTools ==
    { "generate_rhythmic_sequence", "generate_attractor_prompt",
      "map_magazine_photography_parameters", "compute_aesthetic_distance",
      "extract_visual_vocabulary" }

\* the keys of the complete payload of the call
PayloadKeys ==
    IF tool = "generate_rhythmic_sequence"
    THEN { "domain", "preset", "description", "period", "total_steps", "pattern",
           "state_a", "state_b", "parameter_names", "trajectory" }
    ELSE IF tool = "map_magazine_photography_parameters"
    THEN { "domain", "state", "intensity", "emphasis", "parameters", "parameter_names" }
    ELSE IF tool = "compute_aesthetic_distance"
    THEN { "state_a", "state_b", "euclidean_distance", "per_parameter_difference",
           "largest_difference", "transition_characterization" }
    ELSE IF tool = "extract_visual_vocabulary"
    THEN { "domain", "nearest_type", "distance", "keywords", "optical_properties",
           "input_state", "strength" }
    ELSE IF args.mode = "sequence"
    THEN { "domain", "mode", "preset", "description", "keyframe_count", "keyframes" }
    ELSE IF args.mode = "composite"
    THEN { "domain", "mode", "source", "nearest_type", "distance", "prompt",
           "vocabulary", "state" }
    ELSE { "domain", "mode", "source", "nearest_type", "distance", "sections", "state" }

\* C22: for every argument combination each tool of the preset and trajectory layer
\* (generate_rhythmic_sequence, generate_attractor_prompt,
\* map_magazine_photography_parameters, compute_aesthetic_distance,
\* extract_visual_vocabulary) either returns its complete payload or returns a single
\* record with an error field; none of them raises a fault to the caller.
C22_NoFault ==
    tool \in LayerTools =>
        /\ "exception" \notin DOMAIN result
        /\ \/ "error" \in DOMAIN result /\ DOMAIN result \cap PayloadKeys = {}
           \/ "error" \notin DOMAIN result /\ DOMAIN result = PayloadKeys

\* sequence mode with keyframe_count 0: total // keyframe_count divides by zero
C22_DivisionByZero ==
    /\ tool = "generate_attractor_prompt"
    /\ args.mode = "sequence"
    /\ args.preset_name = Some("mood_arc")
    /\ args.keyframe_count = 0
    /\ Len(locals.trajectory) = 60
    /\ result = [exception |-> "ZeroDivisionError"]

\* C23: after any sequence of calls to the core tools with any arguments, successful
\* or error-returning, the three catalogs MAGPHOTO_COORDS, MAGPHOTO_RHYTHMIC_PRESETS
\* and MAGPHOTO_VISUAL_TYPES are equal to their initial values, and the input records
\* passed to the classifiers and the scorer are unchanged.
C23_NoWrites ==
    /\ store.MAGPHOTO_COORDS = MAGPHOTO_COORDS
    /\ store.MAGPHOTO_RHYTHMIC_PRESETS = MAGPHOTO_RHYTHMIC_PRESETS
    /\ store.MAGPHOTO_VISUAL_TYPES = MAGPHOTO_VISUAL_TYPES
    /\ pc \in {"magazine_olog", "compatibility"} => store.magazine = magazine
    /\ pc \in {"photography_olog", "compatibility"} => store.photography = photography

\* a parameter mapping that returned other values than the catalog entry holds,
\* which is as it was
C23_Witness ==
    /\ tool = "map_magazine_photography_parameters"
    /\ args.state_name = "editorial_glamour"
    /\ args.intensity = "dramatic"
    /\ result.parameters.color_saturation # MAGPHOTO_COORDS.editorial_glamour.color_saturation
    /\ store.MAGPHOTO_COORDS.editorial_glamour = MAGPHOTO_COORDS.editorial_glamour

\* C24: before the clamps, technical_score is 5 plus one point for each condition that
\* holds among (focal length medium_telephoto), (composition tight_crop) and (focal
\* length wide with composition environmental), and aesthetic_score is 5 plus one point
\* for each condition that holds among (muted color with soft_diffused lighting),
\* (vibrant color with high or extreme contrast), (hard_directional lighting with high
\* or extreme contrast) and (sharp texture with geometric composition).  Each condition
\* counts on its own, and nothing else of the profiles, the era or the style name
\* enters either score.
Satisfied(conditions) == Cardinality({i \in DOMAIN conditions : conditions[i]})

TechnicalConditions ==
    << photo_profile.focal_length_category = "medium_telephoto",
       photo_profile.composition_strategy = "tight_crop",
       photo_profile.focal_length_category = "wide"
          /\ photo_profile.composition_strategy = "environmental" >>

AestheticConditions ==
    << mag_profile.color_category = "muted"
          /\ mag_profile.lighting_approach = "soft_diffused",
       mag_profile.color_category = "vibrant"
          /\ mag_profile.contrast_profile \in {"high", "extreme"},
       mag_profile.lighting_approach = "hard_directional"
          /\ mag_profile.contrast_profile \in {"high", "extreme"},
       mag_profile.texture_emphasis = "sharp"
          /\ photo_profile.composition_strategy = "geometric" >>

C24_BonusConditions ==
    Scored =>
        /\ pre.technical_score = 5 + Satisfied(TechnicalConditions)
        /\ pre.aesthetic_score = 5 + Satisfied(AestheticConditions)

C24_Witness ==
    /\ Scored
    /\ mag_profile.color_category = "vibrant"
    /\ mag_profile.contrast_profile = "low"
    /\ mag_profile.lighting_approach = "hard_directional"
    /\ mag_profile.texture_emphasis = "sharp"
    /\ photo_profile.composition_strategy = "geometric"
    /\ photo_profile.focal_length_category = "medium_telephoto"
    /\ pre.technical_score = 6
    /\ pre.aesthetic_score = 6

\* C25: a text field missing from a record is read as the empty string: the profile an
\* extractor returns carries "" as the pass-through text of a missing color_palette,
\* lighting, contrast, texture, composition (framing_description) or
\* typical_aperture_range, so that the returned depth_of_field is the classification of
\* the returned typical_aperture_range.
PassThroughTexts ==
    /\ MagazineDone =>
          /\ mag_profile.color_palette = ColorText
          /\ mag_profile.lighting = LightingText
          /\ mag_profile.contrast = ContrastText
          /\ mag_profile.texture = TextureText
    /\ PhotographyDone => photo_profile.framing_description = CompositionText

C25_MissingTextDefaults ==
    /\ PassThroughTexts
    /\ PhotographyDone =>
          /\ photo_profile.typical_aperture_range = ApertureText
          /\ photo_profile.depth_of_field
                = depth_of_field(Lower(photo_profile.typical_aperture_range))

\* a record without typical_aperture_range: the depth of field is classified from ""
\* and the profile carries "f/2.8-f/5.6", whose own classification is deep
C25_ApertureDefault ==
    /\ PhotographyDone
    /\ "technical" \in DOMAIN photography
    /\ "focal_length" \in DOMAIN photography.technical
    /\ "typical_aperture_range" \notin DOMAIN photography.technical
    /\ photo_profile.typical_aperture_range = "f/2.8-f/5.6"
    /\ photo_profile.depth_of_field = "moderate"
    /\ depth_of_field(Lower(photo_profile.typical_aperture_range)) = "deep"

\* C26: every keyword of a classifier branch is effective: a source text that consists
\* of exactly the keyword k is classified into the category of the branch that lists k
\* (composition "asymmetric" into asymmetrical, focal length "35-50" into standard,
\* focal length "50-85" into medium_telephoto); no earlier branch takes it.
LightingGroups ==
    << [keywords |-> {"soft", "diffused"}, category |-> "soft_diffused"],
       [keywords |-> {"hard", "dramatic", "sharp"}, category |-> "hard_directional"],
       [keywords |-> {"natural", "golden hour", "window"}, category |-> "natural_ambient"],
       [keywords |-> {"clinical", "neutral", "even"}, category |-> "clinical"] >>

ContrastGroups ==
    << [keywords |-> {"extreme", "crushed", "blown"}, category |-> "extreme"],
       [keywords |-> {"high"}, category |-> "high"],
       [keywords |-> {"low", "lifted", "compressed"}, category |-> "low"] >>

TextureGroups ==
    << [keywords |-> {"sharp", "crisp", "clinical"}, category |-> "sharp"],
       [keywords |-> {"soft", "dreamy", "ethereal"}, category |-> "ethereal"],
       [keywords |-> {"smooth", "glossy", "polished"}, category |-> "smooth"],
       [keywords |-> {"synthetic", "materials", "manufactured"},
        category |-> "synthetic"] >>

CompositionGroups ==
    << [keywords |-> {"grid", "geometric", "symmetric"}, category |-> "geometric"],
       [keywords |-> {"asymmetric", "balanced"}, category |-> "asymmetrical"],
       [keywords |-> {"crop", "tight", "close"}, category |-> "tight_crop"],
       [keywords |-> {"environment", "context"}, category |-> "environmental"],
       [keywords |-> {"minimal", "sparse", "negative space"},
        category |-> "minimalist"] >>

FocalGroups ==
    << [keywords |-> {"ultra", "14", "16"}, category |-> "ultra_wide"],
       [keywords |-> {"wide", "24", "35"}, category |-> "wide"],
       [keywords |-> {"50", "35-50", "standard"}, category |-> "standard"],
       [keywords |-> {"85", "70", "50-85", "medium telephoto"},
        category |-> "medium_telephoto"],
       [keywords |-> {"telephoto", "100", "200"}, category |-> "telephoto"] >>

Effective(groups, text, category) ==
    \A i \in 1..Len(groups) : text \in groups[i].keywords => category = groups[i].category

MagazineKeywordsEffective ==
    MagazineDone =>
        /\ Effective(ColorGroups, ColorText, mag_profile.color_category)
        /\ Effective(LightingGroups, LightingText, mag_profile.lighting_approach)
        /\ Effective(ContrastGroups, ContrastText, mag_profile.contrast_profile)
        /\ Effective(TextureGroups, TextureText, mag_profile.texture_emphasis)

C26_KeywordsEffective ==
    /\ MagazineKeywordsEffective
    /\ PhotographyDone =>
          /\ Effective(CompositionGroups, CompositionText,
                       photo_profile.composition_strategy)
          /\ Effective(FocalGroups, FocalText, photo_profile.focal_length_category)

\* the focal length "35-50", a keyword of the standard branch, holds the keyword "35" of
\* the wide branch, which is tested before it
C26_ShadowedKeyword ==
    /\ PhotographyDone
    /\ FocalText = "35-50"
    /\ photo_profile.focal_length_category = "wide"

\* C27: the clamps to [1,10] change nothing: before them the technical score is within
\* 5..7, the aesthetic score within 5..8, the tension within 5..8 and the harmony within
\* 4..7, for every combination of categories and every era and style name, and each
\* returned score is its value before the clamp.
C27_ClampIdle ==
    Scored =>
        /\ pre.technical_score \in 5..7
        /\ pre.aesthetic_score \in 5..8
        /\ pre.tension \in 5..8
        /\ pre.harmony \in 4..7
        /\ scores.technical_score = pre.technical_score
        /\ scores.aesthetic_score = pre.aesthetic_score
        /\ scores.creative_tension = pre.tension
        /\ scores.overall_harmony = pre.harmony

C27_Witness ==
    /\ Scored
    /\ pre.aesthetic_score = 8
    /\ scores.aesthetic_score = 8
    /\ pre.technical_score = 6
    /\ pre.harmony = 7
    /\ pre.tension = 5

\* C28: the four scores and the temporal alignment depend on nothing but the six
\* categories color_category, lighting_approach, contrast_profile, texture_emphasis,
\* composition_strategy and focal_length_category and the era label and style name: a
\* second call that agrees with the scored one on these and differs in the subject
\* context, the depth of field, the aperture range or the descriptive texts returns the
\* same scores and the same alignment.  The returned scores are the clamped locals of
\* the call and the alignment is computed from the era and the name alone, so the second
\* call returns the same when its technical score, aesthetic score and tension are those
\* of the scored call.
OtherMagazineProfiles ==
    { [mag_profile EXCEPT !.color_palette = t, !.lighting = t, !.contrast = t,
                          !.texture = t] : t \in {"", "vivid hard high crisp"} }

OtherPhotographyProfiles ==
    { [photo_profile EXCEPT !.subject_context = v[1], !.depth_of_field = v[2],
                            !.typical_aperture_range = v[3],
                            !.framing_description = v[3]] :
         v \in { <<"people", "shallow", "f/1.4 tight crop">>, <<"objects", "deep", "">>,
                 <<"places", "deep", "f/8 wide">>, <<"moments", "moderate", "">>,
                 <<"abstract", "shallow", "f/1.4 tight crop">> } }

\* what a call returns is its four locals, clamped, and its alignment
ReturnedFrom(l) ==
    << clamp(l.harmony), clamp(l.technical_score), clamp(l.aesthetic_score),
       clamp(l.tension), l.temporal_align >>

ScoresOf(r) ==
    << r.overall_harmony, r.technical_score, r.aesthetic_score, r.creative_tension,
       r.temporal_alignment >>

C28_SevenInputs ==
    Scored =>
        /\ ScoresOf(scores) = ReturnedFrom(pre)
        /\ pre.temporal_align = temporal_align(EraText, NameText)
        /\ pre.harmony = harmony(pre.technical_score, pre.aesthetic_score, pre.tension)
        /\ \A mp \in OtherMagazineProfiles : \A pp \in OtherPhotographyProfiles :
              /\ technical_score(pp) = pre.technical_score
              /\ aesthetic_score(mp, pp) = pre.aesthetic_score
              /\ tension(mp, pp, pre.temporal_align) = pre.tension

C28_Witness ==
    /\ Scored
    /\ photo_profile.subject_context = "people"
    /\ photo_profile.depth_of_field = "shallow"
    /\ photo_profile.focal_length_category = "medium_telephoto"
    /\ scores.technical_score = 6
    /\ \E pp \in OtherPhotographyProfiles :
          /\ pp.subject_context = "places"
          /\ pp.depth_of_field = "deep"
          /\ technical_score(pp) = 6

\* C29: the catalogs are well-formed: there are exactly 7 canonical states; every
\* canonical state and the coords of every vocabulary type hold exactly the six
\* parameter axes, each with a value in [0,1]; every rhythmic preset names two canonical
\* states that exist, one of the three patterns and a positive whole num_cycles and
\* steps_per_cycle.  Hence the trajectory of every preset, built without an override,
\* never fails, and each of its states holds the six axes with values in [0,1].
IsSixAxisState(state) ==
    /\ DOMAIN state = SixAxes
    /\ \A p \in SixAxes : state[p] \in 0..Scale

CatalogsWellFormed ==
    /\ Cardinality(DOMAIN store.MAGPHOTO_COORDS) = 7
    /\ \A s \in DOMAIN store.MAGPHOTO_COORDS : IsSixAxisState(store.MAGPHOTO_COORDS[s])
    /\ \A t \in DOMAIN store.MAGPHOTO_VISUAL_TYPES :
          IsSixAxisState(store.MAGPHOTO_VISUAL_TYPES[t].coords)
    /\ \A n \in DOMAIN store.MAGPHOTO_RHYTHMIC_PRESETS :
          LET preset == store.MAGPHOTO_RHYTHMIC_PRESETS[n]
          IN  /\ preset.state_a \in DOMAIN store.MAGPHOTO_COORDS
              /\ preset.state_b \in DOMAIN store.MAGPHOTO_COORDS
              /\ preset.pattern \in Patterns
              /\ preset.num_cycles \in Nat \ {0}
              /\ preset.steps_per_cycle \in Nat \ {0}

C29_WellFormed ==
    /\ CatalogsWellFormed
    /\ DefaultTrajectoryCall =>
          /\ tool = "generate_rhythmic_sequence" => "error" \notin DOMAIN result
          /\ Len(ReturnedTrajectory) > 0
          /\ \A k \in 1..Len(ReturnedTrajectory) : IsSixAxisState(ReturnedTrajectory[k])

C29_Witness ==
    /\ tool = "generate_rhythmic_sequence"
    /\ args.preset_name = "tension_pulse"
    /\ args.num_steps = NoneGiven
    /\ Len(result.trajectory) = 64
    /\ \E k \in 1..64 : \E p \in SixAxes : result.trajectory[k][p] = 9500
    /\ \E k \in 1..64 : \E p \in SixAxes : result.trajectory[k][p] = 1000

\* C30: the work of a call is bounded by the sizes of the catalogs: at most 10 canonical
\* states and at most 10 vocabulary types, and a trajectory built for a preset without
\* an override has at most 30 steps.
CatalogSizes ==
    /\ Cardinality(DOMAIN store.MAGPHOTO_COORDS) <= 10
    /\ Cardinality(DOMAIN store.MAGPHOTO_VISUAL_TYPES) <= 10

C30_Original ==
    /\ CatalogSizes
    /\ DefaultTrajectoryCall => Len(ReturnedTrajectory) <= 30

\* C30, amended: at most 10 canonical states and 10 vocabulary types; a preset's period
\* steps_per_cycle is at most 30 and its trajectory without an override, of
\* num_cycles * steps_per_cycle steps, has at most 72.
C30_Bounded ==
    /\ CatalogSizes
    /\ \A n \in DOMAIN store.MAGPHOTO_RHYTHMIC_PRESETS :
          store.MAGPHOTO_RHYTHMIC_PRESETS[n].steps_per_cycle <= 30
    /\ DefaultTrajectoryCall =>
          /\ Len(ReturnedTrajectory) <= 72
          /\ Len(locals.alphas) = Len(ReturnedTrajectory)
          /\ tool = "generate_rhythmic_sequence" =>
                /\ result.total_steps = Len(result.trajectory)
                /\ result.period <= 30

C30_Witness ==
    /\ tool = "generate_rhythmic_sequence"
    /\ args.preset_name = "era_drift"
    /\ args.num_steps = NoneGiven
    /\ result.period = 24
    /\ result.total_steps = 72
    /\ Len(result.trajectory) = 72

====
